---- MODULE Spec2Model ----
(***************************************************************************)
(* Reconciliation and safety subsystem of the cluster provisioner:         *)
(*   pkg/planner   GeneratePlan           (specification SpecPlan)         *)
(*   pkg/snapshot  Manager                (specification SpecSnap)         *)
(*   pkg/engine    Engine.Apply           (specification SpecApply)        *)
(*   planner+engine GeneratePlan, Apply   (specification SpecCycle)        *)
(*   pkg/state     callers of the manager (specification SpecLock)         *)
(*   pkg/drift     Reconciler.Run         (specification SpecRun)          *)
(*   pkg/drift     DetectDrift            (specification SpecDrift)        *)
(* Each specification drives one component; the variables of the other     *)
(* components keep their initial values.                                   *)
(***************************************************************************)
EXTENDS Integers, Sequences, FiniteSets, TLC

VARIABLES
    desired,      \* planner input: the caller's desired engine.State
    actual,       \* planner input: the actual engine.State
    plan,         \* planner output: engine.Plan.Actions
    planPc,       \* "input" before GeneratePlan has run, "done" after
    persisted,    \* the engine.State held by the StateManager
    snapshotDir,  \* snapshot directory: file name (snapshot id) -> decoded JSON document
    now,          \* the wall clock, in ticks
    last,         \* the last Manager call: its arguments, pre-state and result
    providers,    \* Engine.providers: the registered provider names
    applyPlan,    \* the plan Apply is executing
    applyPc,      \* "idle", "loop" (at the head of the for loop), "record", "returned"
    applyPos,     \* index in applyPlan of the action the for loop is at
    applyBase,    \* the number of recorded events when Apply was called
    dispatched,   \* positions of the actions handed to executeAction, in order
    events,       \* the EventStore: the recorded events, in order
    txCalls,      \* the calls made on the Transaction of this Apply, in order
    applyErr,     \* Apply's return value: "nil" or an error
    providerCalls,\* the CloudProvider capability calls made by this Apply, in order
    callerPc,     \* per caller of the state manager: its position in RestoreSnapshot
    callerSnap,   \* per caller: the snapshot its RestoreSnapshot loaded
    callerRead,   \* per caller: the state its RestoreSnapshot read with GetState
    lockHolders,  \* the callers whose Lock has returned nil and who have not called Unlock
    runPc,        \* Reconciler.Run: "select", "reconcile" or "stopped"
    tickerC,      \* the ticks waiting in ticker.C (a channel of capacity one)
    ctxDone,      \* whether the context of Run is cancelled
    ticks,        \* the number of times the ticker has fired
    started,      \* the number of reconcile calls made by Run
    returned,     \* the number of reconcile calls that have returned
    live,         \* per provider name: the engine.State its Reconcile reports
    report,       \* the DriftReport of the last DetectDrift
    driftPc,      \* "input"; "done" after DetectDrift, "remediated" after Remediate
    remediation   \* what the last Remediate did and returned

plannerVars == <<desired, actual, plan, planPc>>
snapVars    == <<persisted, snapshotDir, now, last>>
engineVars  ==
    <<providers, applyPlan, applyPc, applyPos, applyBase, dispatched, events, txCalls, applyErr,
      providerCalls>>
lockVars    == <<callerPc, callerSnap, callerRead, lockHolders>>
runVars     == <<runPc, tickerC, ctxDone, ticks, started, returned>>
driftVars   == <<live, report, driftPc, remediation>>
vars        == <<plannerVars, snapVars, engineVars, lockVars, runVars, driftVars>>

-----------------------------------------------------------------------------
(* Bounded universes of the inputs.                                        *)

ClusterIDs    == {"c1", "c2"}
\* One id is shared by both kinds: a resource is keyed by (kind, id), the tables are separate.
PoolIDs       == {"c1", "p1"}
ProviderNames == {"aws", "azure"}
Versions      == {"1.28", "1.29"}

\* Orders(S): every order in which a Go `range` may visit the keys S of a map.
Orders(S) == {o \in [1..Cardinality(S) -> S] : \A i, j \in 1..Cardinality(S) : i # j => o[i] # o[j]}

\* api.Cluster = Resource[ClusterSpec], restricted to the fields the core reads.
Cluster(id, provider, version) ==
    [ID |-> id,
     Metadata |-> [Name |-> "n-" \o id],
     Spec |-> [Provider |-> provider, ControlPlane |-> [Version |-> version]]]

\* api.NodePool = Resource[WorkerPoolSpec].
NodePool(id, size) ==
    [ID |-> id,
     Metadata |-> [Name |-> "n-" \o id],
     Spec |-> [Name |-> "n-" \o id, DesiredSize |-> size]]

\* Maps id -> resource whose keys equal the resource's own ID.
ClusterMaps(provs, vers) ==
    UNION {{[id \in ids |-> Cluster(id, pv[id][1], pv[id][2])] : pv \in [ids -> provs \X vers]}
           : ids \in SUBSET ClusterIDs}

PoolMaps(sizes) ==
    UNION {{[id \in ids |-> NodePool(id, sz[id])] : sz \in [ids -> sizes]}
           : ids \in SUBSET PoolIDs}

\* engine.State; Networks and Metadata are never written by the core and stay empty.
State(clusters, pools) == [Clusters |-> clusters, NodePools |-> pools]

EmptyState == State([id \in {} |-> 0], [id \in {} |-> 0])

-----------------------------------------------------------------------------
(* The state of each component after construction.                         *)

InitEngine ==
    /\ providers = {}
    /\ applyPlan = <<>>
    /\ applyPc = "idle"
    /\ applyPos = 1
    /\ applyBase = 0
    /\ dispatched = <<>>
    /\ events = <<>>
    /\ txCalls = <<>>
    /\ applyErr = "nil"
    /\ providerCalls = <<>>

InitSnapshots ==
    /\ persisted = EmptyState
    /\ snapshotDir = [id \in {} |-> 0]
    /\ now = 0
    /\ last = [op |-> "none"]

InitPlanner ==
    /\ desired = EmptyState
    /\ actual = EmptyState
    /\ plan = <<>>
    /\ planPc = "input"

\* The callers of the state manager; none has called anything yet.
Callers == {"a", "b"}

InitCallers ==
    /\ callerPc = [c \in Callers |-> "idle"]
    /\ callerSnap = [c \in Callers |-> "none"]
    /\ callerRead = [c \in Callers |-> "none"]
    /\ lockHolders = {}

\* Run has not been called: ticker.C is empty and the context is live.
InitReconciler ==
    /\ runPc = "select"
    /\ tickerC = 0
    /\ ctxDone = FALSE
    /\ ticks = 0
    /\ started = 0
    /\ returned = 0

InitDetector ==
    /\ live = [p \in {} |-> 0]
    /\ report = "none"
    /\ driftPc = "input"
    /\ remediation = "none"

-----------------------------------------------------------------------------
(* pkg/engine: action and event vocabulary.                                *)

ActionCreate == "create"
ActionUpdate == "update"
ActionDelete == "delete"
ActionNoop   == "noop"

EventCreated == "Created"
EventUpdated == "Updated"
EventDeleted == "Deleted"
EventFailed  == "Failed"

ResourceID(provider, kind, id, name) ==
    [Provider |-> provider, Kind |-> kind, ID |-> id, Name |-> name]

\* A nil Parameters map (the Delete actions of the planner set none).
NoParameters == [k \in {} |-> 0]

-----------------------------------------------------------------------------
(* pkg/planner                                                             *)

\* Mutant: the comparison inverted.
needsUpdateInverted(d, a) == d.Spec.ControlPlane.Version = a.Spec.ControlPlane.Version

needsUpdate(d, a) == d.Spec.ControlPlane.Version # a.Spec.ControlPlane.Version

\* Mutant: the existence check dropped, a Create for every desired cluster.
clusterCreatesNoCheck(d, a, order) ==
    LET ids == SelectSeq(order, LAMBDA id : id \in DOMAIN d.Clusters)
    IN  [i \in 1..Len(ids) |->
            [Type |-> ActionCreate,
             Resource |-> ResourceID(d.Clusters[ids[i]].Spec.Provider, "Cluster", ids[i],
                                     d.Clusters[ids[i]].Metadata.Name),
             Parameters |-> [spec |-> d.Clusters[ids[i]].Spec]]]

\* for id, cluster := range desired.Clusters { if !exists in actual { Create } }
clusterCreates(d, a, order) ==
    LET ids == SelectSeq(order, LAMBDA id : id \in DOMAIN d.Clusters /\ id \notin DOMAIN a.Clusters)
    IN  [i \in 1..Len(ids) |->
            [Type |-> ActionCreate,
             Resource |-> ResourceID(d.Clusters[ids[i]].Spec.Provider, "Cluster", ids[i],
                                     d.Clusters[ids[i]].Metadata.Name),
             Parameters |-> [spec |-> d.Clusters[ids[i]].Spec]]]

\* Mutant: the Update carries the spec of the actual cluster.
clusterUpdatesActualSpec(d, a, order) ==
    LET ids == SelectSeq(order, LAMBDA id : /\ id \in DOMAIN d.Clusters
                                        /\ id \in DOMAIN a.Clusters
                                        /\ needsUpdate(d.Clusters[id], a.Clusters[id]))
    IN  [i \in 1..Len(ids) |->
            [Type |-> ActionUpdate,
             Resource |-> ResourceID(d.Clusters[ids[i]].Spec.Provider, "Cluster", ids[i],
                                     d.Clusters[ids[i]].Metadata.Name),
             Parameters |-> [spec |-> a.Clusters[ids[i]].Spec]]]

\* for id, desiredCluster := range desired.Clusters { if exists && needsUpdate { Update } }
clusterUpdates(d, a, order) ==
    LET ids == SelectSeq(order, LAMBDA id : /\ id \in DOMAIN d.Clusters
                                        /\ id \in DOMAIN a.Clusters
                                        /\ needsUpdate(d.Clusters[id], a.Clusters[id]))
    IN  [i \in 1..Len(ids) |->
            [Type |-> ActionUpdate,
             Resource |-> ResourceID(d.Clusters[ids[i]].Spec.Provider, "Cluster", ids[i],
                                     d.Clusters[ids[i]].Metadata.Name),
             Parameters |-> [spec |-> d.Clusters[ids[i]].Spec]]]

\* for id, cluster := range actual.Clusters { if !exists in desired { Delete } }
clusterDeletes(d, a, order) ==
    LET ids == SelectSeq(order, LAMBDA id : id \in DOMAIN a.Clusters /\ id \notin DOMAIN d.Clusters)
    IN  [i \in 1..Len(ids) |->
            [Type |-> ActionDelete,
             Resource |-> ResourceID(a.Clusters[ids[i]].Spec.Provider, "Cluster", ids[i],
                                     a.Clusters[ids[i]].Metadata.Name),
             Parameters |-> NoParameters]]

\* Mutant: the node pool loop is missing.
poolCreatesNone(d, a, order) == <<>>

\* for id, pool := range desired.NodePools { if !exists in actual { Create } }
\* The ResourceID literal sets no Provider: it is the empty string.
poolCreates(d, a, order) ==
    LET ids == SelectSeq(order, LAMBDA id : id \in DOMAIN d.NodePools /\ id \notin DOMAIN a.NodePools)
    IN  [i \in 1..Len(ids) |->
            [Type |-> ActionCreate,
             Resource |-> ResourceID("", "NodePool", ids[i], d.NodePools[ids[i]].Metadata.Name),
             Parameters |-> [spec |-> d.NodePools[ids[i]].Spec]]]

\* Mutant: the delete loop placed before the update loop.
GeneratePlanDeletesFirst(d, a, o1, o2, o3, o4) ==
    clusterCreates(d, a, o1) \o clusterDeletes(d, a, o3) \o clusterUpdates(d, a, o2)
        \o poolCreates(d, a, o4)

\* Planner.GeneratePlan: the four loops append to plan.Actions in this order.  o1..o4 are
\* the orders in which the four `range` statements visit their maps.
GeneratePlan(d, a, o1, o2, o3, o4) ==
    clusterCreates(d, a, o1) \o clusterUpdates(d, a, o2) \o clusterDeletes(d, a, o3)
        \o poolCreates(d, a, o4)

\* The states GeneratePlan is applied to.
PlanStates == {State(c, p) : c \in ClusterMaps(ProviderNames, Versions), p \in PoolMaps({1})}

-----------------------------------------------------------------------------
(* encoding/json, as far as the snapshot manager and the state store use   *)
(* it.  A JSON document is kept as its value tree (objects are functions   *)
(* from key to value); Text gives its compact text, whose byte length the  *)
(* checksum reads.  Fields of the Go structs that the model leaves at      *)
(* their zero value add the same bytes to every document and are left out. *)

DecDigits == <<"0", "1", "2", "3", "4", "5", "6", "7", "8", "9">>
HexDigits == <<"0", "1", "2", "3", "4", "5", "6", "7", "8", "9", "a", "b", "c", "d", "e", "f">>

RECURSIVE Dec(_)
\* strconv for a non-negative int
Dec(n) == IF n < 10 THEN DecDigits[n + 1] ELSE Dec(n \div 10) \o DecDigits[(n % 10) + 1]

RECURSIVE Hex(_)
\* fmt.Sprintf("%x", n)
Hex(n) == IF n < 16 THEN HexDigits[n + 1] ELSE Hex(n \div 16) \o HexDigits[(n % 16) + 1]

\* encoding/json writes the keys of a map in sorted order.
KeyOrder == <<"c1", "c2", "p1">>
SortedKeys(S) == SelectSeq(KeyOrder, LAMBDA k : k \in S)

RECURSIVE Join(_)
Join(parts) ==
    IF parts = <<>> THEN ""
    ELSE IF Len(parts) = 1 THEN parts[1]
    ELSE parts[1] \o "," \o Join(Tail(parts))

Quote(str) == "\"" \o str \o "\""

\* ClusterSpec: `json:"provider"`, `json:"controlPlane"`; ControlPlaneSpec: `json:"version"`.
EncodeClusterSpec(spec) ==
    [provider |-> spec.Provider, controlPlane |-> [version |-> spec.ControlPlane.Version]]
DecodeClusterSpec(j) ==
    [Provider |-> j.provider, ControlPlane |-> [Version |-> j.controlPlane.version]]
TextClusterSpec(j) ==
    "{\"provider\":" \o Quote(j.provider) \o ",\"controlPlane\":{\"version\":"
        \o Quote(j.controlPlane.version) \o "}}"

\* WorkerPoolSpec: `json:"name"`, `json:"desiredSize,omitempty"`: a zero size is not written,
\* and a missing key leaves the field at zero.
EncodePoolSpec(spec) ==
    IF spec.DesiredSize = 0 THEN [name |-> spec.Name]
    ELSE [name |-> spec.Name, desiredSize |-> spec.DesiredSize]
DecodePoolSpec(j) ==
    [Name |-> j.name, DesiredSize |-> IF "desiredSize" \in DOMAIN j THEN j.desiredSize ELSE 0]
TextPoolSpec(j) ==
    "{\"name\":" \o Quote(j.name)
        \o (IF "desiredSize" \in DOMAIN j THEN ",\"desiredSize\":" \o Dec(j.desiredSize) ELSE "")
        \o "}"

\* Resource[T]: `json:"id"`, `json:"metadata"`, `json:"spec"`; ResourceMetadata: `json:"name"`.
EncodeCluster(c) ==
    [id |-> c.ID, metadata |-> [name |-> c.Metadata.Name], spec |-> EncodeClusterSpec(c.Spec)]
DecodeCluster(j) ==
    [ID |-> j.id, Metadata |-> [Name |-> j.metadata.name], Spec |-> DecodeClusterSpec(j.spec)]
TextCluster(j) ==
    "{\"id\":" \o Quote(j.id) \o ",\"metadata\":{\"name\":" \o Quote(j.metadata.name)
        \o "},\"spec\":" \o TextClusterSpec(j.spec) \o "}"

EncodeNodePool(np) ==
    [id |-> np.ID, metadata |-> [name |-> np.Metadata.Name], spec |-> EncodePoolSpec(np.Spec)]
DecodeNodePool(j) ==
    [ID |-> j.id, Metadata |-> [Name |-> j.metadata.name], Spec |-> DecodePoolSpec(j.spec)]
TextNodePool(j) ==
    "{\"id\":" \o Quote(j.id) \o ",\"metadata\":{\"name\":" \o Quote(j.metadata.name)
        \o "},\"spec\":" \o TextPoolSpec(j.spec) \o "}"

\* engine.State has no tags: the keys are the field names.
EncodeState(st) ==
    [Clusters |-> [id \in DOMAIN st.Clusters |-> EncodeCluster(st.Clusters[id])],
     NodePools |-> [id \in DOMAIN st.NodePools |-> EncodeNodePool(st.NodePools[id])]]
DecodeState(j) ==
    [Clusters |-> [id \in DOMAIN j.Clusters |-> DecodeCluster(j.Clusters[id])],
     NodePools |-> [id \in DOMAIN j.NodePools |-> DecodeNodePool(j.NodePools[id])]]
TextState(j) ==
    LET cs == SortedKeys(DOMAIN j.Clusters)
        ps == SortedKeys(DOMAIN j.NodePools)
    IN  "{\"Clusters\":{"
            \o Join([i \in 1..Len(cs) |-> Quote(cs[i]) \o ":" \o TextCluster(j.Clusters[cs[i]])])
            \o "},\"NodePools\":{"
            \o Join([i \in 1..Len(ps) |-> Quote(ps[i]) \o ":" \o TextNodePool(j.NodePools[ps[i]])])
            \o "},\"Networks\":{},\"Metadata\":{}}"

\* data, _ := json.Marshal(state)
Marshal(st) == TextState(EncodeState(st))

-----------------------------------------------------------------------------
(* pkg/state: SQLiteStateManager                                           *)

\* GetState: the rows of the two tables.
GetState(db) == db

\* SaveState: one transaction of INSERT OR REPLACE per resource, no DELETE.  The node_pools
\* insert sets no cluster_id, which the schema declares NOT NULL without a default: the
\* statement fails, SaveState returns the error and the deferred Rollback drops the cluster
\* rows written before it.
SaveStateErr(st) == IF DOMAIN st.NodePools # {} THEN "failed to save node pool" ELSE "nil"

SaveState(db, st) ==
    IF SaveStateErr(st) # "nil" THEN db
    ELSE [Clusters |-> [id \in DOMAIN db.Clusters \cup DOMAIN st.Clusters |->
                            IF id \in DOMAIN st.Clusters THEN st.Clusters[id] ELSE db.Clusters[id]],
          NodePools |-> db.NodePools]

-----------------------------------------------------------------------------
(* pkg/snapshot: Manager                                                   *)

TicksPerSecond == 2
MaxTime == 5

TriggerManual == "manual"

\* generateSnapshotID: "snapshot-" and the clock formatted to the second.
generateSnapshotID(t) == "snapshot-" \o Dec(t \div TicksPerSecond)

\* calculateChecksum: the length of the state's JSON text, in hexadecimal.
calculateChecksum(st) == Hex(Len(Marshal(st)))

\* saveSnapshot: json.MarshalIndent(snapshot) written to <snapshotDir>/<ID>.json; os.WriteFile
\* replaces a file of that name.  Snapshot and SnapshotMetadata have no tags.
EncodeSnapshot(snap) == [snap EXCEPT !.State = EncodeState(snap.State)]
DecodeSnapshot(j) == [j EXCEPT !.State = DecodeState(j.State)]

saveSnapshot(dir, snap) ==
    [id \in DOMAIN dir \cup {snap.ID} |-> IF id = snap.ID THEN EncodeSnapshot(snap) ELSE dir[id]]

\* A file whose bytes json.Unmarshal rejects.
Garbage == [garbage |-> TRUE]

\* LoadSnapshot: reads <snapshotDir>/<id>.json; an error when there is no such file or when
\* json.Unmarshal fails on it.
LoadSnapshotErr(dir, id) ==
    IF id \notin DOMAIN dir THEN "failed to read snapshot file"
    ELSE IF dir[id] = Garbage THEN "failed to unmarshal snapshot"
    ELSE "nil"
LoadSnapshot(dir, id) == DecodeSnapshot(dir[id])

\* DeleteSnapshot: os.Remove of the file.
DeleteSnapshot(dir, id) == [k \in DOMAIN dir \ {id} |-> dir[k]]

\* Mutant: the checksum taken before the state is captured.
NewSnapshotEarlyChecksum(db, t, description, reason) ==
    LET currentState == GetState(db)
    IN  [ID |-> generateSnapshotID(t),
         CreatedAt |-> t,
         Description |-> description,
         State |-> currentState,
         Metadata |-> [Version |-> "1.0", CreatedBy |-> "provctl", TriggerReason |-> reason,
                       ClusterCount |-> Cardinality(DOMAIN currentState.Clusters),
                       NodePoolCount |-> Cardinality(DOMAIN currentState.NodePools)],
         Checksum |-> calculateChecksum(EmptyState)]

\* CreateSnapshot, up to saveSnapshot: the Snapshot value built from the current state at
\* clock reading t.
NewSnapshot(db, t, description, reason) ==
    LET currentState == GetState(db)
    IN  [ID |-> generateSnapshotID(t),
         CreatedAt |-> t,
         Description |-> description,
         State |-> currentState,
         Metadata |-> [Version |-> "1.0", CreatedBy |-> "provctl", TriggerReason |-> reason,
                       ClusterCount |-> Cardinality(DOMAIN currentState.Clusters),
                       NodePoolCount |-> Cardinality(DOMAIN currentState.NodePools)],
         Checksum |-> calculateChecksum(currentState)]

\* ListSnapshots: one SnapshotInfo per file, sorted by sort.Slice with CreatedAt.After as
\* the order, newest first; entries of equal CreatedAt may come in either order.
SnapshotInfo(snap) ==
    [ID |-> snap.ID, CreatedAt |-> snap.CreatedAt, Description |-> snap.Description,
     TriggerReason |-> snap.Metadata.TriggerReason,
     ClusterCount |-> snap.Metadata.ClusterCount,
     NodePoolCount |-> snap.Metadata.NodePoolCount]

\* Mutant: sorted oldest first.
ListSnapshotsOldestFirst(dir) ==
    {[i \in 1..Len(o) |-> SnapshotInfo(LoadSnapshot(dir, o[i]))] :
        o \in {q \in Orders({id \in DOMAIN dir : LoadSnapshotErr(dir, id) = "nil"}) :
                  \A i, j \in 1..Len(q) :
                      i < j => LoadSnapshot(dir, q[i]).CreatedAt <= LoadSnapshot(dir, q[j]).CreatedAt}}

\* A file LoadSnapshot fails on is skipped.
ListSnapshots(dir) ==
    {[i \in 1..Len(o) |-> SnapshotInfo(LoadSnapshot(dir, o[i]))] :
        o \in {q \in Orders({id \in DOMAIN dir : LoadSnapshotErr(dir, id) = "nil"}) :
                  \A i, j \in 1..Len(q) :
                      i < j => LoadSnapshot(dir, q[i]).CreatedAt >= LoadSnapshot(dir, q[j]).CreatedAt}}

\* RetentionPolicy{MaxAge, MaxCount}; zero means not set.
RetentionPolicy(maxAge, maxCount) == [MaxAge |-> maxAge, MaxCount |-> maxCount]

RECURSIVE PruneLoop(_, _, _, _, _)
\* The for loop of PruneSnapshots from index i on: the ids deleted, in order.
PruneLoop(snapshots, i, deleted, policy, t) ==
    IF i > Len(snapshots) THEN deleted
    ELSE LET shouldDelete ==
                 \/ policy.MaxAge > 0 /\ t - snapshots[i].CreatedAt > policy.MaxAge
                 \/ policy.MaxCount > 0 /\ Len(snapshots) - Len(deleted) > policy.MaxCount
         IN  PruneLoop(snapshots, i + 1,
                       IF shouldDelete THEN Append(deleted, snapshots[i].ID) ELSE deleted,
                       policy, t)

\* PruneSnapshots on the listing `snapshots`: the ids it deletes and returns.
PruneSnapshots(snapshots, policy, t) == PruneLoop(snapshots, 1, <<>>, policy, t)

RECURSIVE DeleteAll(_, _)
DeleteAll(dir, ids) ==
    IF ids = <<>> THEN dir ELSE DeleteAll(DeleteSnapshot(dir, Head(ids)), Tail(ids))

\* RestoreResult.  Changes, which calculateRestoreChanges computes from the two states
\* without writing anything, and RestoredAt are not carried.
RestoreResult(id, backupID, dryRun, success) ==
    [SnapshotID |-> id, BackupID |-> backupID, DryRun |-> dryRun, Success |-> success]

ActionAdd    == "add"
ActionModify == "modify"
ActionRemove == "remove"

\* RestoreChange; Before and After are nil where the code sets none.  The ResourceID is
\* built without a Provider.
RestoreChange(action, kind, id, name, before, after) ==
    [Action |-> action, Resource |-> ResourceID("", kind, id, name),
     Before |-> before, After |-> after]

\* clustersEqual, nodePoolsEqual: the JSON texts of the two Specs are compared.
clustersEqual(a, b) ==
    TextClusterSpec(EncodeClusterSpec(a.Spec)) = TextClusterSpec(EncodeClusterSpec(b.Spec))
nodePoolsEqual(a, b) ==
    TextPoolSpec(EncodePoolSpec(a.Spec)) = TextPoolSpec(EncodePoolSpec(b.Spec))

\* One kind's two loops of calculateRestoreChanges: over the snapshot's map in the order
\* so (Modify or Add), then over the current map in the order co (Remove).
changesOfKind(kind, snap, cur, so, co, same) ==
    LET first == SelectSeq(so, LAMBDA id : id \notin DOMAIN cur \/ ~same[id])
        second == SelectSeq(co, LAMBDA id : id \notin DOMAIN snap)
    IN  [i \in 1..Len(first) |->
            IF first[i] \in DOMAIN cur
            THEN RestoreChange(ActionModify, kind, first[i], snap[first[i]].Metadata.Name,
                               cur[first[i]].Spec, snap[first[i]].Spec)
            ELSE RestoreChange(ActionAdd, kind, first[i], snap[first[i]].Metadata.Name,
                               "nil", snap[first[i]].Spec)]
        \o [i \in 1..Len(second) |->
               RestoreChange(ActionRemove, kind, second[i], cur[second[i]].Metadata.Name,
                             cur[second[i]].Spec, "nil")]

\* Mutant: a resource of both states is reported as Modify whether or not the Specs differ.
calculateRestoreChangesAlwaysModify(snapshot, current, o1, o2, o3, o4) ==
    changesOfKind("Cluster", snapshot.Clusters, current.Clusters, o1, o2,
                  [id \in DOMAIN snapshot.Clusters \cap DOMAIN current.Clusters |-> FALSE])
    \o changesOfKind("NodePool", snapshot.NodePools, current.NodePools, o3, o4,
                  [id \in DOMAIN snapshot.NodePools \cap DOMAIN current.NodePools |-> FALSE])

\* calculateRestoreChanges, with the orders in which the four maps are ranged over.
calculateRestoreChanges(snapshot, current, o1, o2, o3, o4) ==
    changesOfKind("Cluster", snapshot.Clusters, current.Clusters, o1, o2,
                  [id \in DOMAIN snapshot.Clusters \cap DOMAIN current.Clusters |->
                      clustersEqual(snapshot.Clusters[id], current.Clusters[id])])
    \o changesOfKind("NodePool", snapshot.NodePools, current.NodePools, o3, o4,
                  [id \in DOMAIN snapshot.NodePools \cap DOMAIN current.NodePools |->
                      nodePoolsEqual(snapshot.NodePools[id], current.NodePools[id])])

\* result.Changes of a RestoreSnapshot of the snapshot id: one list per order of the maps.
RestoreChanges(db, dir, id) ==
    IF LoadSnapshotErr(dir, id) # "nil" THEN {<<>>}
    ELSE LET snapshot == LoadSnapshot(dir, id).State
             current == GetState(db)
         IN  {calculateRestoreChanges(snapshot, current, o1, o2, o3, o4) :
                 o1 \in Orders(DOMAIN snapshot.Clusters), o2 \in Orders(DOMAIN current.Clusters),
                 o3 \in Orders(DOMAIN snapshot.NodePools),
                 o4 \in Orders(DOMAIN current.NodePools)}

\* Mutant: the state is overwritten before the backup is taken.
RestoreApplySaveFirst(db, dir, t, snapshot, id) ==
    LET db2 == SaveState(db, snapshot.State)
        backup == NewSnapshot(db2, t, "Pre-restore backup", TriggerManual)
    IN  [db |-> db2, dir |-> saveSnapshot(dir, backup),
         err |-> IF SaveStateErr(snapshot.State) # "nil" THEN "failed to restore state" ELSE "nil",
         result |-> RestoreResult(id, backup.ID, FALSE, SaveStateErr(snapshot.State) = "nil")]

\* RestoreSnapshot, the branch !dryRun: CreateSnapshot of the current state, then SaveState of
\* the snapshot's state.  A SaveState error is returned after the backup has been written.
RestoreApply(db, dir, t, snapshot, id) ==
    LET backup == NewSnapshot(db, t, "Pre-restore backup", TriggerManual)
        dir2 == saveSnapshot(dir, backup)
    IN  IF SaveStateErr(snapshot.State) # "nil"
        THEN [db |-> db, dir |-> dir2, err |-> "failed to restore state",
              result |-> RestoreResult(id, backup.ID, FALSE, FALSE)]
        ELSE [db |-> SaveState(db, snapshot.State), dir |-> dir2, err |-> "nil",
              result |-> RestoreResult(id, backup.ID, FALSE, TRUE)]

\* Mutant: the dryRun flag is not consulted.
RestoreSnapshotAlwaysApplies(db, dir, t, id, dryRun) ==
    IF LoadSnapshotErr(dir, id) # "nil"
    THEN [db |-> db, dir |-> dir, err |-> "failed to load snapshot",
          result |-> RestoreResult(id, "", dryRun, FALSE)]
    ELSE RestoreApply(db, dir, t, LoadSnapshot(dir, id), id)

\* Mutant: the stored checksum is not compared.
RestoreSnapshotNoChecksum(db, dir, t, id, dryRun) ==
    IF LoadSnapshotErr(dir, id) # "nil"
    THEN [db |-> db, dir |-> dir, err |-> "failed to load snapshot",
          result |-> RestoreResult(id, "", dryRun, FALSE)]
    ELSE IF ~dryRun
    THEN RestoreApply(db, dir, t, LoadSnapshot(dir, id), id)
    ELSE [db |-> db, dir |-> dir, err |-> "nil",
          result |-> RestoreResult(id, "", TRUE, FALSE)]

\* Manager.RestoreSnapshot at clock reading t: the database and the directory it leaves, the
\* error and the result it returns (the result is nil when err is not).
RestoreSnapshot(db, dir, t, id, dryRun) ==
    IF LoadSnapshotErr(dir, id) # "nil"
    THEN [db |-> db, dir |-> dir, err |-> "failed to load snapshot",
          result |-> RestoreResult(id, "", dryRun, FALSE)]
    ELSE LET snapshot == LoadSnapshot(dir, id)
         IN  IF calculateChecksum(snapshot.State) # snapshot.Checksum
             THEN [db |-> db, dir |-> dir, err |-> "snapshot checksum mismatch",
                   result |-> RestoreResult(id, "", dryRun, FALSE)]
             ELSE IF ~dryRun
             THEN RestoreApply(db, dir, t, snapshot, id)
             ELSE [db |-> db, dir |-> dir, err |-> "nil",
                   result |-> RestoreResult(id, "", TRUE, FALSE)]

\* The database contents the snapshot manager is run against.
SnapStates ==
    {EmptyState,
     State("c1" :> Cluster("c1", "aws", "1.28"), [id \in {} |-> 0]),
     State("c1" :> Cluster("c1", "aws", "1.29"), [id \in {} |-> 0]),
     State("c1" :> Cluster("c1", "aws", "1.28"), "p1" :> NodePool("p1", 0)),
     State("c1" :> Cluster("c1", "aws", "1.28"), "p1" :> NodePool("p1", 2))}

SnapshotIDs == {generateSnapshotID(t) : t \in 0..MaxTime}
MaxAges   == {0, 2}
MaxCounts == {0, 1, 2}

\* The database file may hold rows when the manager is opened (CREATE TABLE IF NOT EXISTS).
InitSnap ==
    /\ persisted \in SnapStates
    /\ snapshotDir = [id \in {} |-> 0]
    /\ now = 0
    /\ last = [op |-> "none"]
    /\ InitPlanner
    /\ InitEngine
    /\ InitCallers
    /\ InitReconciler
    /\ InitDetector

\* Time passes.
Tick ==
    /\ now < MaxTime
    /\ now' = now + 1
    /\ last' = [op |-> "tick"]
    /\ UNCHANGED <<persisted, snapshotDir, plannerVars, engineVars, lockVars, runVars,
                   driftVars>>

\* A caller of StateManager.SaveState.
SaveStateCall ==
    \E st \in SnapStates :
        /\ persisted' = SaveState(persisted, st)
        /\ last' = [op |-> "save", err |-> SaveStateErr(st)]
        /\ UNCHANGED <<snapshotDir, now, plannerVars, engineVars, lockVars, runVars,
                   driftVars>>

\* Manager.CreateSnapshot; the call takes one tick of the clock, so no two snapshots have
\* the same CreatedAt.  Failures of the file system and of the database are not modelled.
CreateSnapshotCall ==
    /\ now < MaxTime
    /\ LET snapshot == NewSnapshot(persisted, now, "Snapshot", TriggerManual)
       IN  /\ snapshotDir' = saveSnapshot(snapshotDir, snapshot)
           /\ last' = [op |-> "create", err |-> "nil", snapshot |-> snapshot]
    /\ now' = now + 1
    /\ UNCHANGED <<persisted, plannerVars, engineVars, lockVars, runVars,
                   driftVars>>

\* Manager.RestoreSnapshot; the backup's CreateSnapshot takes one tick of the clock.
RestoreSnapshotCall ==
    \E id \in SnapshotIDs, dryRun \in BOOLEAN :
      \E changes \in RestoreChanges(persisted, snapshotDir, id) :
        /\ dryRun \/ now < MaxTime
        /\ LET r == RestoreSnapshot(persisted, snapshotDir, now, id, dryRun)
           IN  /\ persisted' = r.db
               /\ snapshotDir' = r.dir
               /\ now' = IF r.dir = snapshotDir THEN now ELSE now + 1
               /\ last' = [op |-> "restore", id |-> id, dryRun |-> dryRun, err |-> r.err,
                           result |-> r.result, before |-> persisted,
                           changes |-> IF r.err = "nil" THEN changes ELSE <<>>]
        /\ UNCHANGED <<plannerVars, engineVars, lockVars, runVars,
                   driftVars>>

\* Manager.PruneSnapshots
PruneSnapshotsCall ==
    \E maxAge \in MaxAges, maxCount \in MaxCounts, snapshots \in ListSnapshots(snapshotDir) :
        LET policy == RetentionPolicy(maxAge, maxCount)
            deleted == PruneSnapshots(snapshots, policy, now)
        IN  /\ snapshotDir' = DeleteAll(snapshotDir, deleted)
            /\ last' = [op |-> "prune", err |-> "nil", policy |-> policy,
                        listed |-> snapshots, deleted |-> deleted]
            /\ UNCHANGED <<persisted, now, plannerVars, engineVars, lockVars, runVars,
                   driftVars>>

NextSnap ==
    \/ Tick
    \/ SaveStateCall
    \/ CreateSnapshotCall
    \/ RestoreSnapshotCall
    \/ PruneSnapshotsCall

SpecSnap == InitSnap /\ [][NextSnap]_vars

\* The snapshot directory is an ordinary directory: between two calls of the manager a file
\* in it can be rewritten from outside.  The states a rewritten file may carry.
TamperStates ==
    {EmptyState,
     State("c1" :> Cluster("c1", "aws", "1.28"), [id \in {} |-> 0]),
     State("c1" :> Cluster("c1", "aws", "1.29"), [id \in {} |-> 0])}

\* The contents a file can be given from outside: bytes that are not JSON, or the same
\* snapshot with another State and the Checksum field left as it was.
TamperedFiles(file) ==
    {Garbage} \cup
    (IF file = Garbage THEN {}
     ELSE {[file EXCEPT !.State = EncodeState(st)] : st \in TamperStates})

\* The manager is opened on a directory an earlier run has written one snapshot to.
InitCorrupt ==
    /\ persisted \in SnapStates
    /\ \E st \in TamperStates :
          snapshotDir = saveSnapshot([id \in {} |-> 0], NewSnapshot(st, 0, "Snapshot", TriggerManual))
    /\ now = TicksPerSecond
    /\ last = [op |-> "none"]
    /\ InitPlanner
    /\ InitEngine
    /\ InitCallers
    /\ InitReconciler
    /\ InitDetector

\* A file of the snapshot directory is rewritten from outside.
TamperSnapshot ==
    \E id \in DOMAIN snapshotDir :
        \E file \in TamperedFiles(snapshotDir[id]) \ {snapshotDir[id]} :
            /\ snapshotDir' = [snapshotDir EXCEPT ![id] = file]
            /\ last' = [op |-> "tamper", id |-> id]
            /\ UNCHANGED <<persisted, now, plannerVars, engineVars, lockVars, runVars,
                           driftVars>>

\* Manager.ListSnapshots
ListSnapshotsCall ==
    \E snapshots \in ListSnapshots(snapshotDir) :
        /\ last' = [op |-> "list", err |-> "nil", listed |-> snapshots]
        /\ UNCHANGED <<persisted, snapshotDir, now, plannerVars, engineVars, lockVars,
                       runVars, driftVars>>

NextCorrupt ==
    \/ CreateSnapshotCall
    \/ TamperSnapshot
    \/ RestoreSnapshotCall
    \/ ListSnapshotsCall

SpecCorrupt == InitCorrupt /\ [][NextCorrupt]_vars

\* The states a restore compares: up to two clusters and two node pools on either side.
ChangeStates ==
    {State(cs, ps) : cs \in ClusterMaps({"aws"}, Versions),
                     ps \in PoolMaps({2}) \cup {"p1" :> NodePool("p1", 0)}}

\* The manager is opened on a database and on a directory an earlier run has written one
\* snapshot to; the clock leaves room for one backup snapshot.
InitChanges ==
    /\ persisted \in ChangeStates
    /\ \E st \in ChangeStates :
          snapshotDir = saveSnapshot([id \in {} |-> 0], NewSnapshot(st, 0, "Snapshot", TriggerManual))
    /\ now = MaxTime - 1
    /\ last = [op |-> "none"]
    /\ InitPlanner
    /\ InitEngine
    /\ InitCallers
    /\ InitReconciler
    /\ InitDetector

NextChanges == RestoreSnapshotCall

SpecChanges == InitChanges /\ [][NextChanges]_vars

InitPlan ==
    /\ desired \in PlanStates
    /\ actual \in PlanStates
    /\ plan = <<>>
    /\ planPc = "input"
    /\ InitSnapshots
    /\ InitEngine
    /\ InitCallers
    /\ InitReconciler
    /\ InitDetector

GeneratePlanCall ==
    /\ planPc = "input"
    /\ \E o1, o2, o3 \in Orders(ClusterIDs), o4 \in Orders(PoolIDs) :
          plan' = GeneratePlan(desired, actual, o1, o2, o3, o4)
    /\ planPc' = "done"
    /\ UNCHANGED <<desired, actual, snapVars, engineVars, lockVars, runVars,
                   driftVars>>

NextPlan == GeneratePlanCall

SpecPlan == InitPlan /\ [][NextPlan]_vars

-----------------------------------------------------------------------------
(* pkg/engine: Engine.Apply                                                *)

MaxPlanLen == 3
MaxEvents == 3

ErrProviderNotFound == "PROVIDER_NOT_FOUND"
ErrRecordEvent == "record event failed"

\* Mutant: every event is typed Created.
toEventTypeAlwaysCreated(actionType) == EventCreated

\* toEventType
toEventType(actionType) ==
    CASE actionType = ActionCreate -> EventCreated
      [] actionType = ActionUpdate -> EventUpdated
      [] actionType = ActionDelete -> EventDeleted
      [] OTHER -> ""

\* api.Event as Apply builds it: ID, Timestamp and Actor are left at their zero value.
Event(action) ==
    [Type |-> toEventType(action.Type), Resource |-> action.Resource,
     Payload |-> action.Parameters]

\* Mutant: the provider lookup is skipped.
executeActionAnyProvider(provs, action) == "nil"

\* executeAction: ErrProviderNotFound when GetProvider returns nil; executeCreate,
\* executeUpdate and executeDelete return nil, and so does a Noop.
executeAction(provs, action) ==
    IF action.Resource.Provider \notin provs THEN ErrProviderNotFound ELSE "nil"

\* executeCreate, executeUpdate, executeDelete: the capability calls each makes on the
\* provider it is handed.  The bodies are `return nil`.
executeCreate(provider, action) == <<>>
executeUpdate(provider, action) == <<>>
executeDelete(provider, action) == <<>>

\* The capability calls made by executeAction.
executeActionCalls(provs, action) ==
    IF action.Resource.Provider \notin provs
    THEN <<>>
    ELSE CASE action.Type = ActionCreate -> executeCreate(action.Resource.Provider, action)
           [] action.Type = ActionUpdate -> executeUpdate(action.Resource.Provider, action)
           [] action.Type = ActionDelete -> executeDelete(action.Resource.Provider, action)
           [] OTHER -> <<>>

\* The actions of the plans Apply is given.
ApplyActions ==
    {[Type |-> ActionCreate, Resource |-> ResourceID("aws", "Cluster", "c1", "n-c1"),
      Parameters |-> [spec |-> Cluster("c1", "aws", "1.28").Spec]],
     [Type |-> ActionUpdate, Resource |-> ResourceID("azure", "Cluster", "c2", "n-c2"),
      Parameters |-> [spec |-> Cluster("c2", "azure", "1.29").Spec]],
     [Type |-> ActionDelete, Resource |-> ResourceID("aws", "Cluster", "c2", "n-c2"),
      Parameters |-> NoParameters],
     [Type |-> ActionCreate, Resource |-> ResourceID("", "NodePool", "p1", "n-p1"),
      Parameters |-> [spec |-> NodePool("p1", 1).Spec]],
     [Type |-> ActionNoop, Resource |-> ResourceID("aws", "Cluster", "c1", "n-c1"),
      Parameters |-> NoParameters]}

ApplyPlans == UNION {[1..n -> ApplyActions] : n \in 0..MaxPlanLen}

InitApply ==
    /\ InitEngine
    /\ InitPlanner
    /\ InitSnapshots
    /\ InitCallers
    /\ InitReconciler
    /\ InitDetector

\* Engine.RegisterProvider, while the engine is set up (before the first Apply).
RegisterProvider ==
    /\ applyPc = "idle"
    /\ \E name \in ProviderNames : providers' = providers \cup {name}
    /\ UNCHANGED <<applyPlan, applyPc, applyPos, applyBase, dispatched, events, txCalls,
                   applyErr, providerCalls, plannerVars, snapVars, lockVars, runVars,
                   driftVars>>

\* Apply is called: tx := e.state.BeginTransaction(); defer tx.Rollback()
ApplyBegin ==
    /\ applyPc \in {"idle", "returned"}
    /\ \E p \in ApplyPlans :
          /\ Len(events) + Len(p) <= MaxEvents
          /\ applyPlan' = p
    /\ applyPc' = "loop"
    /\ applyPos' = 1
    /\ applyBase' = Len(events)
    /\ dispatched' = <<>>
    /\ txCalls' = <<"Begin">>
    /\ applyErr' = "nil"
    /\ providerCalls' = <<>>
    /\ UNCHANGED <<providers, events, plannerVars, snapVars, lockVars, runVars,
                   driftVars>>

\* Mutant: best effort, an executeAction error is kept and the loop continues with the next
\* action.
ApplyDispatchContinues ==
    /\ applyPc = "loop"
    /\ applyPos <= Len(applyPlan)
    /\ dispatched' = Append(dispatched, applyPos)
    /\ providerCalls' = providerCalls \o executeActionCalls(providers, applyPlan[applyPos])
    /\ LET err == executeAction(providers, applyPlan[applyPos])
       IN  IF err # "nil"
           THEN /\ applyErr' = err
                /\ applyPos' = applyPos + 1
                /\ UNCHANGED applyPc
           ELSE /\ applyPc' = "record"
                /\ UNCHANGED <<applyErr, applyPos>>
    /\ UNCHANGED <<txCalls, providers, applyPlan, applyBase, events, plannerVars, snapVars, lockVars, runVars,
                   driftVars>>

\* Mutant: the loop moves on to the next action without waiting for the event write.
ApplyDispatchNoWait ==
    /\ applyPc = "loop"
    /\ applyPos <= Len(applyPlan)
    /\ dispatched' = Append(dispatched, applyPos)
    /\ providerCalls' = providerCalls \o executeActionCalls(providers, applyPlan[applyPos])
    /\ LET err == executeAction(providers, applyPlan[applyPos])
       IN  IF err # "nil"
           THEN /\ applyErr' = err
                /\ applyPc' = "returned"
                /\ txCalls' = Append(txCalls, "Rollback")
                /\ UNCHANGED applyPos
           ELSE /\ applyPos' = applyPos + 1
                /\ UNCHANGED <<applyPc, applyErr, txCalls>>
    /\ UNCHANGED <<providers, applyPlan, applyBase, events, plannerVars, snapVars, lockVars,
                   runVars, driftVars>>

\* The loop body, first half: executeAction; on an error Apply returns it and the deferred
\* Rollback runs.
ApplyDispatch ==
    /\ applyPc = "loop"
    /\ applyPos <= Len(applyPlan)
    /\ dispatched' = Append(dispatched, applyPos)
    /\ providerCalls' = providerCalls \o executeActionCalls(providers, applyPlan[applyPos])
    /\ LET err == executeAction(providers, applyPlan[applyPos])
       IN  IF err # "nil"
           THEN /\ applyErr' = err
                /\ applyPc' = "returned"
                /\ txCalls' = Append(txCalls, "Rollback")
           ELSE /\ applyPc' = "record"
                /\ UNCHANGED <<applyErr, txCalls>>
    /\ UNCHANGED <<providers, applyPlan, applyPos, applyBase, events, plannerVars, snapVars, lockVars, runVars,
                   driftVars>>

\* Mutant: a failed event write commits what was done so far before Apply returns the error.
ApplyRecordCommitsOnError ==
    /\ applyPc = "record"
    /\ \E ok \in BOOLEAN :
          IF ok
          THEN /\ events' = Append(events, Event(applyPlan[applyPos]))
               /\ applyPos' = applyPos + 1
               /\ applyPc' = "loop"
               /\ UNCHANGED <<applyErr, txCalls>>
          ELSE /\ applyErr' = ErrRecordEvent
               /\ applyPc' = "returned"
               /\ txCalls' = txCalls \o <<"Commit", "Rollback">>
               /\ UNCHANGED <<events, applyPos>>
    /\ UNCHANGED <<providers, applyPlan, applyBase, dispatched, providerCalls, plannerVars,
                   snapVars, lockVars, runVars, driftVars>>

\* The loop body, second half: RecordEvent, which the event store may fail; on an error
\* Apply returns it and the deferred Rollback runs.
ApplyRecord ==
    /\ applyPc = "record"
    /\ \E ok \in BOOLEAN :
          IF ok
          THEN /\ events' = Append(events, Event(applyPlan[applyPos]))
               /\ applyPos' = applyPos + 1
               /\ applyPc' = "loop"
               /\ UNCHANGED <<applyErr, txCalls>>
          ELSE /\ applyErr' = ErrRecordEvent
               /\ applyPc' = "returned"
               /\ txCalls' = Append(txCalls, "Rollback")
               /\ UNCHANGED <<events, applyPos>>
    /\ UNCHANGED <<providers, applyPlan, applyBase, dispatched, providerCalls, plannerVars, snapVars, lockVars, runVars,
                   driftVars>>

\* After the loop: return tx.Commit(), then the deferred Rollback.  BeginTransaction leaves
\* sqliteTransaction.tx nil, so Commit returns nil.
ApplyCommit ==
    /\ applyPc = "loop"
    /\ applyPos > Len(applyPlan)
    /\ txCalls' = txCalls \o <<"Commit", "Rollback">>
    /\ applyErr' = "nil"
    /\ applyPc' = "returned"
    /\ UNCHANGED <<providers, applyPlan, applyPos, applyBase, dispatched, events,
                   providerCalls, plannerVars, snapVars, lockVars, runVars,
                   driftVars>>

NextApply ==
    \/ RegisterProvider
    \/ ApplyBegin
    \/ ApplyDispatch
    \/ ApplyRecord
    \/ ApplyCommit

SpecApply == InitApply /\ [][NextApply]_vars

-----------------------------------------------------------------------------
(* Concurrent callers of one Manager and one SQLiteStateManager.            *)
(* RestoreSnapshot is taken one call at a time: LoadSnapshot and the        *)
(* checksum test, GetState, the backup CreateSnapshot, SaveState.           *)

\* SQLiteStateManager.Lock: `return nil`; it waits for nothing and records nothing, so every
\* caller is granted the lock.
Lock(holders, c) == [err |-> "nil", holders |-> holders \cup {c}]

\* SQLiteStateManager.Unlock: `return nil`.
Unlock(holders, c) == [err |-> "nil", holders |-> holders \ {c}]

\* The manager is opened on a directory that holds one snapshot, taken in the first clock
\* second of a database holding cluster c1 at version 1.28; the database has been written
\* since.
InitLock ==
    /\ persisted \in {st \in SnapStates : DOMAIN st.NodePools = {}}
    /\ snapshotDir =
          saveSnapshot([id \in {} |-> 0],
                       NewSnapshot(State("c1" :> Cluster("c1", "aws", "1.28"), [id \in {} |-> 0]),
                                   0, "Snapshot", TriggerManual))
    /\ now = TicksPerSecond
    /\ last = [op |-> "none"]
    /\ InitPlanner
    /\ InitEngine
    /\ InitCallers
    /\ InitReconciler
    /\ InitDetector

\* A caller of StateManager.Lock.
LockCall(c) ==
    /\ callerPc[c] = "idle"
    /\ c \notin lockHolders
    /\ Lock(lockHolders, c).err = "nil"
    /\ lockHolders' = Lock(lockHolders, c).holders
    /\ UNCHANGED <<callerPc, callerSnap, callerRead, snapVars, plannerVars, engineVars,
                   runVars, driftVars>>

\* A caller of StateManager.Unlock.
UnlockCall(c) ==
    /\ callerPc[c] = "idle"
    /\ c \in lockHolders
    /\ lockHolders' = Unlock(lockHolders, c).holders
    /\ UNCHANGED <<callerPc, callerSnap, callerRead, snapVars, plannerVars, engineVars,
                   runVars, driftVars>>

\* RestoreSnapshot, lines 103-118: LoadSnapshot and the checksum test.  A call that fails
\* here returns with nothing changed.
RestoreLoad(c) ==
    /\ callerPc[c] = "idle"
    /\ \E id \in DOMAIN snapshotDir, dryRun \in BOOLEAN :
          /\ LoadSnapshotErr(snapshotDir, id) = "nil"
          /\ LET snapshot == LoadSnapshot(snapshotDir, id)
             IN  /\ calculateChecksum(snapshot.State) = snapshot.Checksum
                 /\ callerSnap' = [callerSnap EXCEPT ![c] = [snapshot |-> snapshot,
                                                            dryRun |-> dryRun]]
    /\ callerPc' = [callerPc EXCEPT ![c] = "loaded"]
    /\ UNCHANGED <<callerRead, lockHolders, snapVars, plannerVars, engineVars, runVars,
                   driftVars>>

\* RestoreSnapshot, lines 120-127: GetState and calculateRestoreChanges; a dry run returns.
RestoreGetState(c) ==
    /\ callerPc[c] = "loaded"
    /\ IF callerSnap[c].dryRun
       THEN /\ callerPc' = [callerPc EXCEPT ![c] = "idle"]
            /\ callerSnap' = [callerSnap EXCEPT ![c] = "none"]
            /\ UNCHANGED callerRead
       ELSE /\ callerPc' = [callerPc EXCEPT ![c] = "read"]
            /\ callerRead' = [callerRead EXCEPT ![c] = GetState(persisted)]
            /\ UNCHANGED callerSnap
    /\ UNCHANGED <<lockHolders, snapVars, plannerVars, engineVars, runVars, driftVars>>

\* RestoreSnapshot, lines 130-135: the backup CreateSnapshot, which reads the state again.
RestoreBackup(c) ==
    /\ callerPc[c] = "read"
    /\ now < MaxTime
    /\ snapshotDir' = saveSnapshot(snapshotDir,
                                   NewSnapshot(persisted, now, "Pre-restore backup",
                                               TriggerManual))
    /\ now' = now + 1
    /\ callerPc' = [callerPc EXCEPT ![c] = "backedup"]
    /\ UNCHANGED <<callerSnap, callerRead, lockHolders, persisted, last, plannerVars,
                   engineVars, runVars, driftVars>>

\* RestoreSnapshot, lines 137-147: SaveState of the snapshot's state, and the return.
RestoreSave(c) ==
    /\ callerPc[c] = "backedup"
    /\ persisted' = SaveState(persisted, callerSnap[c].snapshot.State)
    /\ callerPc' = [callerPc EXCEPT ![c] = "idle"]
    /\ callerSnap' = [callerSnap EXCEPT ![c] = "none"]
    /\ callerRead' = [callerRead EXCEPT ![c] = "none"]
    /\ UNCHANGED <<lockHolders, snapshotDir, now, last, plannerVars, engineVars, runVars,
                   driftVars>>

NextLock ==
    \/ \E c \in Callers : LockCall(c)
    \/ \E c \in Callers : UnlockCall(c)
    \/ \E c \in Callers : RestoreLoad(c)
    \/ \E c \in Callers : RestoreGetState(c)
    \/ \E c \in Callers : RestoreBackup(c)
    \/ \E c \in Callers : RestoreSave(c)

SpecLock == InitLock /\ [][NextLock]_vars

-----------------------------------------------------------------------------
(* Reconciler.Run: one goroutine, a ticker and a context.                   *)

MaxTicks == 6

InitRun ==
    /\ InitReconciler
    /\ InitPlanner
    /\ InitSnapshots
    /\ InitEngine
    /\ InitCallers
    /\ InitDetector

\* The ticker of time.NewTicker(r.interval) fires: ticker.C holds one tick at most, a tick
\* that finds it full is dropped.  The deferred ticker.Stop() ends it when Run returns.
TickerFire ==
    /\ runPc # "stopped"
    /\ ticks < MaxTicks
    /\ ticks' = ticks + 1
    /\ tickerC' = 1
    /\ UNCHANGED <<runPc, ctxDone, started, returned, plannerVars, snapVars, engineVars,
                   lockVars, driftVars>>

\* The owner of the context cancels it.
CancelContext ==
    /\ ~ctxDone
    /\ ctxDone' = TRUE
    /\ UNCHANGED <<runPc, tickerC, ticks, started, returned, plannerVars, snapVars,
                   engineVars, lockVars, driftVars>>

\* Mutant: the cycle is started in a goroutine of its own and the loop goes back to select.
RunTickAsync ==
    /\ runPc = "select"
    /\ tickerC = 1
    /\ tickerC' = 0
    /\ started' = started + 1
    /\ UNCHANGED <<runPc, ctxDone, ticks, returned, plannerVars, snapVars, engineVars,
                   lockVars, driftVars>>

\* select, case <-ticker.C: the tick is received and r.reconcile(ctx) is called.
RunTick ==
    /\ runPc = "select"
    /\ tickerC = 1
    /\ tickerC' = 0
    /\ runPc' = "reconcile"
    /\ started' = started + 1
    /\ UNCHANGED <<ctxDone, ticks, returned, plannerVars, snapVars, engineVars, lockVars,
                   driftVars>>

\* reconcile returns (its body returns nil) and the loop is back at select.
RunReconcileReturns ==
    /\ runPc = "reconcile"
    /\ returned' = returned + 1
    /\ runPc' = "select"
    /\ UNCHANGED <<tickerC, ctxDone, ticks, started, plannerVars, snapVars, engineVars,
                   lockVars, driftVars>>

\* select, case <-ctx.Done(): Run returns ctx.Err().  With a tick waiting as well, select
\* takes either case.
RunDone ==
    /\ runPc = "select"
    /\ ctxDone
    /\ runPc' = "stopped"
    /\ UNCHANGED <<tickerC, ctxDone, ticks, started, returned, plannerVars, snapVars,
                   engineVars, lockVars, driftVars>>

NextRun ==
    \/ TickerFire
    \/ CancelContext
    \/ RunTick
    \/ RunReconcileReturns
    \/ RunDone

SpecRun == InitRun /\ [][NextRun]_vars

-----------------------------------------------------------------------------
(* pkg/drift: DriftDetector.DetectDrift                                    *)

DriftVersionSkew     == "version_skew"
DriftScaleChange     == "scale_change"
DriftResourceDeleted == "resource_deleted"

SeverityCritical == "critical"
SeverityHigh     == "high"
SeverityMedium   == "medium"
SeverityLow      == "low"

\* api.WorkerPoolSpec, restricted to the fields DetectDrift reads.
WorkerPool(name, size) == [Name |-> name, DesiredSize |-> size]

\* api.Cluster with the worker pools of its spec.
ClusterWithPools(id, provider, version, pools) ==
    [ID |-> id,
     Metadata |-> [Name |-> "n-" \o id],
     Spec |-> [Provider |-> provider, ControlPlane |-> [Version |-> version],
               WorkerPools |-> pools]]

ResourceDrift(resource, driftType, field, expected, act, severity, remediatable) ==
    [Resource |-> resource, DriftType |-> driftType, Field |-> field, Expected |-> expected,
     Actual |-> act, Severity |-> severity, Remediatable |-> remediatable]

RECURSIVE ConcatAll(_)
ConcatAll(seqs) == IF seqs = <<>> THEN <<>> ELSE Head(seqs) \o ConcatAll(Tail(seqs))

\* getAllProviders: a new, empty map is returned; the engine's providers are not read.
getAllProviders(provs) == {}

\* The worker pool loop for one desired pool: a scale_change drift per live pool of that name
\* with another size, a resource_deleted drift when no live pool has that name.
poolDrifts(providerName, id, desiredPool, actualPools) ==
    LET named == SelectSeq(actualPools, LAMBDA ap : ap.Name = desiredPool.Name)
        scaled == SelectSeq(named, LAMBDA ap : ap.DesiredSize # desiredPool.DesiredSize)
        resource == ResourceID(providerName, "NodePool", id \o "/" \o desiredPool.Name,
                               desiredPool.Name)
    IN  [k \in 1..Len(scaled) |->
            ResourceDrift(resource, DriftScaleChange, "desiredSize", desiredPool.DesiredSize,
                          scaled[k].DesiredSize, SeverityMedium, TRUE)]
        \o (IF named = <<>>
            THEN <<ResourceDrift(resource, DriftResourceDeleted, "nodePool", "exists",
                                 "deleted", SeverityHigh, TRUE)>>
            ELSE <<>>)

\* The body of the cluster loop for one desired cluster and one provider's live state.
clusterDrifts(providerName, id, desiredCluster, actualState) ==
    IF desiredCluster.Spec.Provider # providerName
    THEN <<>>
    ELSE IF id \notin DOMAIN actualState.Clusters
    THEN <<ResourceDrift(ResourceID(providerName, "Cluster", id, desiredCluster.Metadata.Name),
                         DriftResourceDeleted, "cluster", "exists", "deleted",
                         SeverityCritical, TRUE)>>
    ELSE LET actualCluster == actualState.Clusters[id]
         IN  (IF desiredCluster.Spec.ControlPlane.Version
                    # actualCluster.Spec.ControlPlane.Version
              THEN <<ResourceDrift(ResourceID(providerName, "Cluster", id,
                                              desiredCluster.Metadata.Name),
                                   DriftVersionSkew, "controlPlane.version",
                                   desiredCluster.Spec.ControlPlane.Version,
                                   actualCluster.Spec.ControlPlane.Version,
                                   SeverityHigh, TRUE)>>
              ELSE <<>>)
             \o ConcatAll([i \in 1..Len(desiredCluster.Spec.WorkerPools) |->
                              poolDrifts(providerName, id, desiredCluster.Spec.WorkerPools[i],
                                         actualCluster.Spec.WorkerPools)])

\* Mutant: the error of provider.Reconcile is not looked at.
providerDriftsIgnoresError(providerName, d, liveStates, clusterOrder) ==
    LET ids == SelectSeq(clusterOrder, LAMBDA id : id \in DOMAIN d.Clusters)
    IN  ConcatAll([i \in 1..Len(ids) |->
                     clusterDrifts(providerName, ids[i], d.Clusters[ids[i]],
                                   liveStates[providerName].state)])

\* The body of the provider loop: provider.Reconcile gives the live state or an error, and on
\* an error the provider is skipped.  (The code reads Clusters from the value Reconcile
\* returns, which the CloudProvider interface declares a Plan.)
providerDrifts(providerName, d, liveStates, clusterOrder) ==
    IF liveStates[providerName].err # "nil"
    THEN <<>>
    ELSE LET ids == SelectSeq(clusterOrder, LAMBDA id : id \in DOMAIN d.Clusters)
         IN  ConcatAll([i \in 1..Len(ids) |->
                          clusterDrifts(providerName, ids[i], d.Clusters[ids[i]],
                                        liveStates[providerName].state)])

\* Mutant: drifts of severity medium are not counted.
DriftSummaryNoMedium(drifts) ==
    LET Count(sev) == Cardinality({i \in 1..Len(drifts) : drifts[i].Severity = sev})
    IN  [TotalDrifts |-> Len(drifts),
         CriticalCount |-> Count(SeverityCritical),
         HighCount |-> Count(SeverityHigh),
         MediumCount |-> 0,
         LowCount |-> Count(SeverityLow),
         RemediableCount |-> Cardinality({i \in 1..Len(drifts) : drifts[i].Remediatable})]

DriftSummary(drifts) ==
    LET Count(sev) == Cardinality({i \in 1..Len(drifts) : drifts[i].Severity = sev})
    IN  [TotalDrifts |-> Len(drifts),
         CriticalCount |-> Count(SeverityCritical),
         HighCount |-> Count(SeverityHigh),
         MediumCount |-> Count(SeverityMedium),
         LowCount |-> Count(SeverityLow),
         RemediableCount |-> Cardinality({i \in 1..Len(drifts) : drifts[i].Remediatable})]

\* Mutant: HasDrift is computed as len(report.Drifts) >= 0.
DetectDriftHasDriftWhenEmpty(provs, d, liveStates, providerOrder, clusterOrder) ==
    LET names == SelectSeq(providerOrder, LAMBDA p : p \in getAllProviders(provs))
        drifts == ConcatAll([i \in 1..Len(names) |->
                               providerDrifts(names[i], d, liveStates, clusterOrder)])
    IN  [HasDrift |-> Len(drifts) >= 0, Drifts |-> drifts, Summary |-> DriftSummary(drifts)]

\* DetectDrift, with the orders in which the two maps are ranged over; DetectedAt is left out.
DetectDrift(provs, d, liveStates, providerOrder, clusterOrder) ==
    LET names == SelectSeq(providerOrder, LAMBDA p : p \in getAllProviders(provs))
        drifts == ConcatAll([i \in 1..Len(names) |->
                               providerDrifts(names[i], d, liveStates, clusterOrder)])
    IN  [HasDrift |-> Len(drifts) > 0, Drifts |-> drifts, Summary |-> DriftSummary(drifts)]

\* The desired states DetectDrift is given: c1 in every variant, with or without c2.
DriftDesired ==
    LET c1s == {ClusterWithPools("c1", p, v, pools) :
                   p \in ProviderNames, v \in Versions,
                   pools \in {<<>>, <<WorkerPool("w1", 1)>>}}
        c2 == ClusterWithPools("c2", "aws", "1.28", <<>>)
    IN  {EmptyState}
        \cup {State("c1" :> c, [id \in {} |-> 0]) : c \in c1s}
        \cup {State(("c1" :> c) @@ ("c2" :> c2), [id \in {} |-> 0]) : c \in c1s}

\* What a provider's Reconcile returns: a live state, or an error.
DriftLive ==
    {[err |-> e, state |-> EmptyState] : e \in {"nil", "reconcile failed"}}
    \cup {[err |-> "nil",
           state |-> State("c1" :> ClusterWithPools("c1", "aws", v, pools), [id \in {} |-> 0])] :
             v \in Versions,
             pools \in {<<>>, <<WorkerPool("w1", 1)>>, <<WorkerPool("w1", 2)>>}}

InitDrift ==
    /\ desired \in DriftDesired
    /\ live \in [ProviderNames -> DriftLive]
    /\ providers \in SUBSET ProviderNames
    /\ report = "none"
    /\ driftPc = "input"
    /\ remediation = "none"
    /\ actual = EmptyState
    /\ plan = <<>>
    /\ planPc = "input"
    /\ applyPlan = <<>>
    /\ applyPc = "idle"
    /\ applyPos = 1
    /\ applyBase = 0
    /\ dispatched = <<>>
    /\ events = <<>>
    /\ txCalls = <<>>
    /\ applyErr = "nil"
    /\ providerCalls = <<>>
    /\ InitSnapshots
    /\ InitCallers
    /\ InitReconciler

DetectDriftCall ==
    /\ driftPc = "input"
    /\ \E providerOrder \in Orders(ProviderNames), clusterOrder \in Orders(ClusterIDs) :
          report' = DetectDrift(providers, desired, live, providerOrder, clusterOrder)
    /\ driftPc' = "done"
    /\ UNCHANGED <<live, remediation, plannerVars, snapVars, engineVars, lockVars, runVars>>

NextDrift == DetectDriftCall

SpecDrift == InitDrift /\ [][NextDrift]_vars

DriftConfigChange == "config_change"

\* remediateDrift: an error when the provider of the drift's resource is not registered or
\* the drift type is none of the three the switch handles; the three cases return nil
\* without calling the provider.
remediateDrift(provs, drift) ==
    IF drift.Resource.Provider \notin provs THEN "provider not found"
    ELSE IF drift.DriftType \in {DriftResourceDeleted, DriftVersionSkew, DriftScaleChange}
    THEN "nil"
    ELSE "unsupported drift type"

RECURSIVE RemediateLoopStopsAtFailure(_, _, _, _)
\* Mutant: the loop ends at the first drift whose remediation fails.
RemediateLoopStopsAtFailure(provs, drifts, i, acc) ==
    IF i > Len(drifts) THEN acc
    ELSE IF ~drifts[i].Remediatable THEN RemediateLoopStopsAtFailure(provs, drifts, i + 1, acc)
    ELSE LET err == remediateDrift(provs, drifts[i])
             attempted == Append(acc.attempted, i)
         IN  IF err # "nil"
             THEN [acc EXCEPT !.attempted = attempted, !.logged = Append(acc.logged, i)]
             ELSE RemediateLoopStopsAtFailure(provs, drifts, i + 1,
                                [acc EXCEPT !.attempted = attempted,
                                            !.remediatedCount = acc.remediatedCount + 1])

RECURSIVE RemediateLoopIgnoresFlag(_, _, _, _)
\* Mutant: the Remediatable flag is not looked at.
RemediateLoopIgnoresFlag(provs, drifts, i, acc) ==
    IF i > Len(drifts) THEN acc
    ELSE LET err == remediateDrift(provs, drifts[i])
             attempted == Append(acc.attempted, i)
         IN  IF err # "nil"
             THEN RemediateLoopIgnoresFlag(provs, drifts, i + 1,
                                [acc EXCEPT !.attempted = attempted,
                                            !.logged = Append(acc.logged, i)])
             ELSE RemediateLoopIgnoresFlag(provs, drifts, i + 1,
                                [acc EXCEPT !.attempted = attempted,
                                            !.remediatedCount = acc.remediatedCount + 1])

RECURSIVE RemediateLoop(_, _, _, _)
\* The for loop of Remediate from index i on.  acc carries the positions remediateDrift was
\* called for, the positions logged as failed, and remediatedCount.
RemediateLoop(provs, drifts, i, acc) ==
    IF i > Len(drifts) THEN acc
    ELSE IF ~drifts[i].Remediatable THEN RemediateLoop(provs, drifts, i + 1, acc)
    ELSE LET err == remediateDrift(provs, drifts[i])
             attempted == Append(acc.attempted, i)
         IN  IF err # "nil"
             THEN RemediateLoop(provs, drifts, i + 1,
                                [acc EXCEPT !.attempted = attempted,
                                            !.logged = Append(acc.logged, i)])
             ELSE RemediateLoop(provs, drifts, i + 1,
                                [acc EXCEPT !.attempted = attempted,
                                            !.remediatedCount = acc.remediatedCount + 1])

\* Remediate: what it did, and the error it returns, which is nil on every path.
Remediate(provs, rep) ==
    LET done == RemediateLoop(provs, rep.Drifts, 1,
                              [attempted |-> <<>>, logged |-> <<>>, remediatedCount |-> 0])
    IN  [err |-> "nil", attempted |-> done.attempted, logged |-> done.logged,
         remediatedCount |-> done.remediatedCount]

MaxDrifts == 2

\* The drifts of the reports Remediate is given: about cluster c1 of either provider, of a
\* type remediateDrift handles or not, remediatable or not.
RemediateDrifts ==
    {ResourceDrift(ResourceID(p, "Cluster", "c1", "n-c1"), t, "", "", "", SeverityMedium, r) :
        p \in ProviderNames,
        t \in {DriftResourceDeleted, DriftVersionSkew, DriftScaleChange, DriftConfigChange},
        r \in BOOLEAN}

DriftReports ==
    {[HasDrift |-> Len(drifts) > 0, Drifts |-> drifts, Summary |-> DriftSummary(drifts)] :
        drifts \in UNION {[1..n -> RemediateDrifts] : n \in 0..MaxDrifts}}

InitRemediate ==
    /\ providers \in SUBSET ProviderNames
    /\ report \in DriftReports
    /\ live = [p \in {} |-> 0]
    /\ driftPc = "input"
    /\ remediation = "none"
    /\ applyPlan = <<>>
    /\ applyPc = "idle"
    /\ applyPos = 1
    /\ applyBase = 0
    /\ dispatched = <<>>
    /\ events = <<>>
    /\ txCalls = <<>>
    /\ applyErr = "nil"
    /\ providerCalls = <<>>
    /\ InitPlanner
    /\ InitSnapshots
    /\ InitCallers
    /\ InitReconciler

RemediateCall ==
    /\ driftPc = "input"
    /\ remediation' = Remediate(providers, report)
    /\ driftPc' = "remediated"
    /\ UNCHANGED <<live, report, plannerVars, snapVars, engineVars, lockVars, runVars>>

NextRemediate == RemediateCall

SpecRemediate == InitRemediate /\ [][NextRemediate]_vars

-----------------------------------------------------------------------------
(* The plan-and-apply cycle: GeneratePlan on the persisted state, then      *)
(* Apply of the plan it returned, repeated with the same desired state.     *)

\* The desired states and the database contents the cycle is run on.
CycleStates == {State(c, p) : c \in ClusterMaps({"aws"}, Versions), p \in PoolMaps({1})}

InitCycle ==
    /\ desired \in CycleStates
    /\ persisted \in CycleStates
    /\ actual = EmptyState
    /\ plan = <<>>
    /\ planPc = "input"
    /\ snapshotDir = [id \in {} |-> 0]
    /\ now = 0
    /\ last = [op |-> "none"]
    /\ InitEngine
    /\ InitCallers
    /\ InitReconciler
    /\ InitDetector

\* The caller reads the persisted state and plans against it, while no Apply is running.
CycleGeneratePlan ==
    /\ planPc = "input"
    /\ applyPc \in {"idle", "returned"}
    /\ actual' = GetState(persisted)
    /\ \E o1, o2, o3 \in Orders(ClusterIDs), o4 \in Orders(PoolIDs) :
          plan' = GeneratePlan(desired, GetState(persisted), o1, o2, o3, o4)
    /\ planPc' = "done"
    /\ UNCHANGED <<desired, snapVars, engineVars, lockVars, runVars, driftVars>>

\* The caller hands the plan to Apply: tx := e.state.BeginTransaction(); defer tx.Rollback()
CycleApply ==
    /\ planPc = "done"
    /\ applyPc \in {"idle", "returned"}
    /\ Len(events) + Len(plan) <= MaxEvents
    /\ applyPlan' = plan
    /\ planPc' = "input"
    /\ applyPc' = "loop"
    /\ applyPos' = 1
    /\ applyBase' = Len(events)
    /\ dispatched' = <<>>
    /\ txCalls' = <<"Begin">>
    /\ applyErr' = "nil"
    /\ providerCalls' = <<>>
    /\ UNCHANGED <<providers, events, desired, actual, plan, snapVars, lockVars, runVars,
                   driftVars>>

NextCycle ==
    \/ RegisterProvider
    \/ CycleGeneratePlan
    \/ CycleApply
    \/ ApplyDispatch
    \/ ApplyRecord
    \/ ApplyCommit

SpecCycle == InitCycle /\ [][NextCycle]_vars

-----------------------------------------------------------------------------
(* Planner properties, over SpecPlan.                                      *)

Key(act) == <<act.Resource.Kind, act.Resource.ID>>
IdsOfType(t) == {Key(plan[i]) : i \in {j \in 1..Len(plan) : plan[j].Type = t}}
CountFor(t, kind, id) ==
    Cardinality({i \in 1..Len(plan) : plan[i].Type = t /\ Key(plan[i]) = <<kind, id>>})
HasAction(t, kind) ==
    \E i \in 1..Len(plan) : plan[i].Type = t /\ plan[i].Resource.Kind = kind

\* C6: the plan GeneratePlan returns holds at most one action per resource (kind, id), and
\* the resources given a Create, an Update and a Delete are pairwise disjoint.
C6_OneActionPerResource ==
    planPc = "done" =>
        /\ \A i, j \in 1..Len(plan) : i # j => Key(plan[i]) # Key(plan[j])
        /\ IdsOfType(ActionCreate) \cap IdsOfType(ActionUpdate) = {}
        /\ IdsOfType(ActionCreate) \cap IdsOfType(ActionDelete) = {}
        /\ IdsOfType(ActionUpdate) \cap IdsOfType(ActionDelete) = {}

\* A plan with a Create, an Update and a Delete of clusters and a Create of a node pool
\* whose id is also a cluster id.
C6_Witness ==
    /\ planPc = "done"
    /\ HasAction(ActionCreate, "Cluster")
    /\ HasAction(ActionUpdate, "Cluster")
    /\ CountFor(ActionCreate, "NodePool", "c1") = 1
    /\ \E i \in 1..Len(plan) : plan[i].Resource.Kind = "Cluster" /\ plan[i].Resource.ID = "c1"

\* C7: GeneratePlan(S, S) returns a plan with no actions, for every state S.
C7_Idempotent == (planPc = "done" /\ desired = actual) => plan = <<>>

\* GeneratePlan has run on two equal states holding two clusters and two node pools.
C7_Witness ==
    /\ planPc = "done"
    /\ desired = actual
    /\ DOMAIN desired.Clusters = ClusterIDs
    /\ DOMAIN desired.NodePools = PoolIDs

\* C8: for every id in actual and absent from desired the plan holds exactly one Delete
\* action, for clusters and for node pools alike.
C8_DeleteBothKinds ==
    planPc = "done" =>
        /\ \A id \in DOMAIN actual.Clusters \ DOMAIN desired.Clusters :
              CountFor(ActionDelete, "Cluster", id) = 1
        /\ \A id \in DOMAIN actual.NodePools \ DOMAIN desired.NodePools :
              CountFor(ActionDelete, "NodePool", id) = 1

Rank(t) == CASE t = ActionCreate -> 1 [] t = ActionUpdate -> 2 [] t = ActionDelete -> 3
             [] OTHER -> 4

\* C9 as stated: over the whole plan every Create precedes every Update and every Update
\* precedes every Delete.
C9_OrderWholePlan ==
    planPc = "done" =>
        \A i, j \in 1..Len(plan) : Rank(plan[i].Type) < Rank(plan[j].Type) => i < j

\* C9 amended: the order Create, Update, Delete holds among the actions of each resource
\* kind, and every cluster action precedes every node-pool action.
C9_OrderPerKind ==
    planPc = "done" =>
        \A i, j \in 1..Len(plan) :
            /\ (/\ plan[i].Resource.Kind = plan[j].Resource.Kind
                /\ Rank(plan[i].Type) < Rank(plan[j].Type)) => i < j
            /\ (plan[i].Resource.Kind = "Cluster" /\ plan[j].Resource.Kind = "NodePool") => i < j

\* A plan with an Update and a Delete of clusters and a Create of a node pool.
C9_Witness ==
    /\ planPc = "done"
    /\ HasAction(ActionUpdate, "Cluster")
    /\ HasAction(ActionDelete, "Cluster")
    /\ HasAction(ActionCreate, "NodePool")

\* The positions of the plan holding an action of type t for the resource (kind, id).
ActionsFor(t, kind, id) ==
    {i \in 1..Len(plan) : plan[i].Type = t /\ Key(plan[i]) = <<kind, id>>}

\* C28: for every id in desired and absent from actual, cluster or node pool, the plan holds
\* exactly one Create action, carrying the desired spec; it holds no Create for an id that
\* is in actual.
C28_CreateForEachMissing ==
    planPc = "done" =>
        /\ \A id \in DOMAIN desired.Clusters \ DOMAIN actual.Clusters :
              /\ Cardinality(ActionsFor(ActionCreate, "Cluster", id)) = 1
              /\ \A i \in ActionsFor(ActionCreate, "Cluster", id) :
                    plan[i].Parameters.spec = desired.Clusters[id].Spec
        /\ \A id \in DOMAIN desired.NodePools \ DOMAIN actual.NodePools :
              /\ Cardinality(ActionsFor(ActionCreate, "NodePool", id)) = 1
              /\ \A i \in ActionsFor(ActionCreate, "NodePool", id) :
                    plan[i].Parameters.spec = desired.NodePools[id].Spec
        /\ \A id \in DOMAIN actual.Clusters : ActionsFor(ActionCreate, "Cluster", id) = {}
        /\ \A id \in DOMAIN actual.NodePools : ActionsFor(ActionCreate, "NodePool", id) = {}

\* A plan for a cluster and a node pool that are missing and a cluster and a node pool that
\* exist.
C28_Witness ==
    /\ planPc = "done"
    /\ DOMAIN desired.Clusters = ClusterIDs
    /\ DOMAIN desired.NodePools = PoolIDs
    /\ DOMAIN actual.Clusters = {"c2"}
    /\ DOMAIN actual.NodePools = {"c1"}
    /\ Len(plan) >= 2

\* C29: for every cluster id in both desired and actual the plan holds an Update action, one
\* and carrying the desired spec, if and only if the two control-plane versions differ.
C29_UpdateIffVersionDiffers ==
    planPc = "done" =>
        \A id \in DOMAIN desired.Clusters \cap DOMAIN actual.Clusters :
            IF desired.Clusters[id].Spec.ControlPlane.Version
                   # actual.Clusters[id].Spec.ControlPlane.Version
            THEN /\ Cardinality(ActionsFor(ActionUpdate, "Cluster", id)) = 1
                 /\ \A i \in ActionsFor(ActionUpdate, "Cluster", id) :
                       plan[i].Parameters.spec = desired.Clusters[id].Spec
            ELSE ActionsFor(ActionUpdate, "Cluster", id) = {}

\* A plan for one cluster whose version differs and one whose version is the same while its
\* provider differs.
C29_Witness ==
    /\ planPc = "done"
    /\ DOMAIN desired.Clusters = ClusterIDs
    /\ DOMAIN actual.Clusters = ClusterIDs
    /\ desired.Clusters["c1"].Spec.ControlPlane.Version
          # actual.Clusters["c1"].Spec.ControlPlane.Version
    /\ desired.Clusters["c2"].Spec.ControlPlane.Version
          = actual.Clusters["c2"].Spec.ControlPlane.Version
    /\ desired.Clusters["c2"].Spec.Provider # actual.Clusters["c2"].Spec.Provider

-----------------------------------------------------------------------------
(* Snapshot manager properties, over SpecSnap.                             *)

RestoreReturned(dryRun) == last.op = "restore" /\ last.dryRun = dryRun

\* C1: after a successful RestoreSnapshot that is not a dry run, BackupID names a stored
\* snapshot whose State is the persisted state as it was before the restore.
C1_BackupHoldsPreRestoreState ==
    (RestoreReturned(FALSE) /\ last.err = "nil") =>
        /\ last.result.BackupID \in DOMAIN snapshotDir
        /\ LoadSnapshot(snapshotDir, last.result.BackupID).State = last.before

\* A successful restore that changed the persisted state.
C1_Witness ==
    /\ RestoreReturned(FALSE)
    /\ last.err = "nil"
    /\ last.result.Success
    /\ persisted # last.before

\* C2: RestoreSnapshot(id, dryRun = true) leaves the persisted state as it was, whether it
\* returns a result or an error.
C2_DryRunKeepsState == RestoreReturned(TRUE) => persisted = last.before

\* A dry run of a snapshot that a real restore would have written over the persisted state.
C2_Witness ==
    /\ RestoreReturned(TRUE)
    /\ last.err = "nil"
    /\ SaveStateErr(LoadSnapshot(snapshotDir, last.id).State) = "nil"
    /\ SaveState(persisted, LoadSnapshot(snapshotDir, last.id).State) # persisted

\* C3: no CreateSnapshot and no RestoreSnapshot call changes or replaces a snapshot record
\* that is already stored: each new snapshot gets an id no stored snapshot has.
C3_NoOverwrite ==
    [][last'.op \in {"create", "restore"} =>
          \A id \in DOMAIN snapshotDir :
              id \in DOMAIN snapshotDir' /\ snapshotDir'[id] = snapshotDir[id]]_vars

Ids(infos, from, to) == {infos[i].ID : i \in from..to}

\* C4: with only maxCount = N set and M > N snapshots stored, PruneSnapshots deletes the
\* M - N oldest snapshots and leaves the N most recent ones.
C4_PruneKeepsMostRecent ==
    (/\ last.op = "prune"
     /\ last.policy.MaxAge = 0
     /\ last.policy.MaxCount > 0
     /\ last.policy.MaxCount < Len(last.listed)) =>
        LET n == last.policy.MaxCount
            m == Len(last.listed)
        IN  /\ {last.deleted[i] : i \in 1..Len(last.deleted)} = Ids(last.listed, n + 1, m)
            /\ DOMAIN snapshotDir = Ids(last.listed, 1, n)

\* C5: loading the snapshot CreateSnapshot has just returned gives the persisted state of
\* the time of creation, and the stored checksum is the checksum of the loaded state.
C5_RoundTrip ==
    (last.op = "create" /\ last.err = "nil") =>
        LET loaded == LoadSnapshot(snapshotDir, last.snapshot.ID)
        IN  /\ loaded.State = persisted
            /\ loaded.Checksum = calculateChecksum(loaded.State)

\* A snapshot of a state with a node pool of size zero (a field json leaves out), written
\* over a snapshot of the same second.
C5_Witness ==
    /\ last.op = "create"
    /\ last.err = "nil"
    /\ \E id \in DOMAIN persisted.NodePools : persisted.NodePools[id].Spec.DesiredSize = 0
    /\ last.snapshot.CreatedAt % TicksPerSecond # 0

\* The stored snapshot id loads and its Checksum is not the checksum of its State.
ChecksumMismatch(dir, id) ==
    /\ LoadSnapshotErr(dir, id) = "nil"
    /\ calculateChecksum(LoadSnapshot(dir, id).State) # LoadSnapshot(dir, id).Checksum

\* C23: a RestoreSnapshot of a snapshot whose recomputed checksum differs from the stored
\* one returns the checksum error, writes no backup snapshot and leaves the persisted state
\* as it was, with dryRun true and with dryRun false.
C23_ChecksumMismatchRefused ==
    [][(last'.op = "restore" /\ ChecksumMismatch(snapshotDir, last'.id)) =>
          /\ last'.err = "snapshot checksum mismatch"
          /\ snapshotDir' = snapshotDir
          /\ persisted' = persisted]_vars

\* A restore with dryRun false was refused for its checksum, where writing the snapshot's
\* state would have changed the persisted state.
C23_Witness ==
    /\ RestoreReturned(FALSE)
    /\ last.err = "snapshot checksum mismatch"
    /\ ChecksumMismatch(snapshotDir, last.id)
    /\ SaveState(persisted, LoadSnapshot(snapshotDir, last.id).State) # persisted

\* C24: after a RestoreSnapshot with dryRun false that returned no error, GetState returns
\* the State of the snapshot that was restored: nothing the snapshot lacks is still present.
C24_RestoredStateEqualsSnapshot ==
    [][(last'.op = "restore" /\ ~last'.dryRun /\ last'.err = "nil") =>
          GetState(persisted') = LoadSnapshot(snapshotDir, last'.id).State]_vars

\* The ids of the files LoadSnapshot succeeds on.
Readable(dir) == {id \in DOMAIN dir : LoadSnapshotErr(dir, id) = "nil"}

\* C25: ListSnapshots returns each readable stored snapshot exactly once, and no entry is
\* older than the entry after it.
C25_ListNewestFirst ==
    last.op = "list" =>
        LET l == last.listed
        IN  /\ \A id \in Readable(snapshotDir) :
                  Cardinality({i \in 1..Len(l) : l[i].ID = id}) = 1
            /\ \A i \in 1..Len(l) : l[i].ID \in Readable(snapshotDir)
            /\ \A i \in 1..(Len(l) - 1) : l[i].CreatedAt >= l[i + 1].CreatedAt

\* A listing of two snapshots of different age, taken while a third file is unreadable.
C25_Witness ==
    /\ last.op = "list"
    /\ Len(last.listed) = 2
    /\ last.listed[1].CreatedAt > last.listed[2].CreatedAt
    /\ Readable(snapshotDir) # DOMAIN snapshotDir

\* The ids a retention policy marks on the listing `snapshots` at clock reading t: older
\* than MaxAge, or at a position beyond MaxCount.
Marked(snapshots, policy, t) ==
    {snapshots[i].ID : i \in {j \in 1..Len(snapshots) :
        \/ policy.MaxAge > 0 /\ t - snapshots[j].CreatedAt > policy.MaxAge
        \/ policy.MaxCount > 0 /\ j > policy.MaxCount}}

\* C26: PruneSnapshots deletes, and returns, exactly the snapshots its policy marks on the
\* newest-first listing taken before any deletion.
C26_PruneDeletesMarked ==
    last.op = "prune" =>
        /\ {last.deleted[i] : i \in 1..Len(last.deleted)} =
               Marked(last.listed, last.policy, now)
        /\ DOMAIN snapshotDir =
               Ids(last.listed, 1, Len(last.listed)) \ Marked(last.listed, last.policy, now)

\* The file id of the directory is as CreateSnapshot wrote it: it is the file the manager
\* was opened on, or the one the CreateSnapshot that has just returned wrote.
FreshlyWritten(id) ==
    \/ last.op = "none"
    \/ last.op = "create" /\ last.snapshot.ID = id

\* C37: when the State stored in a snapshot file is changed after CreateSnapshot wrote it,
\* whatever the change and also when the serialized length stays the same, RestoreSnapshot
\* of that snapshot returns the checksum error, for dryRun true and false.
C37_CorruptionDetected ==
    [][(/\ last'.op = "tamper"
        /\ FreshlyWritten(last'.id)
        /\ LoadSnapshotErr(snapshotDir', last'.id) = "nil"
        /\ LoadSnapshot(snapshotDir', last'.id).State # LoadSnapshot(snapshotDir, last'.id).State) =>
           \A dryRun \in BOOLEAN :
               RestoreSnapshot(persisted', snapshotDir', now', last'.id, dryRun).err
                   = "snapshot checksum mismatch"]_vars

\* The entries of the change-set about the resource id of a kind.
ChangesFor(changes, kind, id) ==
    SelectSeq(changes, LAMBDA c : c.Resource.Kind = kind /\ c.Resource.ID = id)

\* The change-set classifies the ids of one kind, held by the snapshot as snap and by the
\* current state as cur: Add, Remove, Modify or no entry, and never two entries.
Classified(changes, kind, snap, cur, ids) ==
    \A id \in ids :
        LET cs == ChangesFor(changes, kind, id)
        IN  IF id \in DOMAIN snap /\ id \notin DOMAIN cur
            THEN Len(cs) = 1 /\ cs[1].Action = ActionAdd
            ELSE IF id \notin DOMAIN snap /\ id \in DOMAIN cur
            THEN Len(cs) = 1 /\ cs[1].Action = ActionRemove
            ELSE IF id \in DOMAIN snap /\ snap[id].Spec # cur[id].Spec
            THEN Len(cs) = 1 /\ cs[1].Action = ActionModify
            ELSE cs = <<>>

\* C36: the change-set a RestoreSnapshot returns has, per kind and resource id, one Add
\* entry for an id of the snapshot only, one Remove entry for an id of the current state
\* only, one Modify entry for an id of both with different specs and no entry otherwise;
\* it is empty when the two states are equal.
C36_ChangeSetClassifies ==
    [][(last'.op = "restore" /\ last'.err = "nil") =>
          LET snapshot == LoadSnapshot(snapshotDir, last'.id).State
              current == GetState(persisted)
          IN  /\ Classified(last'.changes, "Cluster", snapshot.Clusters, current.Clusters,
                            ClusterIDs)
              /\ Classified(last'.changes, "NodePool", snapshot.NodePools, current.NodePools,
                            PoolIDs)
              /\ \A i \in 1..Len(last'.changes) :
                    \/ /\ last'.changes[i].Resource.Kind = "Cluster"
                       /\ last'.changes[i].Resource.ID \in ClusterIDs
                    \/ /\ last'.changes[i].Resource.Kind = "NodePool"
                       /\ last'.changes[i].Resource.ID \in PoolIDs
              /\ snapshot = current => last'.changes = <<>>]_vars

\* A restore has returned a change-set with a Modify of a cluster, a Remove of a node
\* pool and an Add of a node pool of the same id as the cluster.
C36_Witness ==
    /\ last.op = "restore"
    /\ last.err = "nil"
    /\ \E i \in 1..Len(last.changes) :
          /\ last.changes[i].Action = ActionAdd
          /\ last.changes[i].Resource.Kind = "NodePool"
          /\ \E j \in 1..Len(last.changes) :
                /\ last.changes[j].Resource.Kind = "Cluster"
                /\ last.changes[j].Resource.ID = last.changes[i].Resource.ID
    /\ \E i \in 1..Len(last.changes) :
          last.changes[i].Action = ActionModify /\ last.changes[i].Resource.Kind = "Cluster"
    /\ \E i \in 1..Len(last.changes) :
          last.changes[i].Action = ActionRemove /\ last.changes[i].Resource.Kind = "NodePool"

-----------------------------------------------------------------------------
(* Engine properties, over SpecApply.                                      *)

ApplyFailed == applyPc = "returned" /\ applyErr # "nil"

\* C10: when the dispatch or the event write of the action at position i fails, Apply
\* returns that error, no action after position i is handed to a provider, and the events
\* recorded by this Apply are those of the actions before position i.
C10_FailFast ==
    ApplyFailed =>
        /\ applyPos \in 1..Len(applyPlan)
        /\ dispatched = [k \in 1..applyPos |-> k]
        /\ Len(events) = applyBase + applyPos - 1
        /\ \A k \in 1..(applyPos - 1) : events[applyBase + k] = Event(applyPlan[k])
        /\ applyErr = IF applyPlan[applyPos].Resource.Provider \in providers
                      THEN ErrRecordEvent ELSE ErrProviderNotFound

\* Apply failed at the second of three actions, the third having a registered provider.
C10_Witness ==
    /\ ApplyFailed
    /\ Len(applyPlan) = 3
    /\ applyPos = 2
    /\ applyPlan[3].Resource.Provider \in providers

TxCalls == {txCalls[i] : i \in 1..Len(txCalls)}

\* The actions of this Apply whose executeAction returned nil.
Executed == {k \in 1..Len(dispatched) : executeAction(providers, applyPlan[dispatched[k]]) = "nil"}

AllSucceeded ==
    /\ Cardinality(Executed) = Len(applyPlan)
    /\ Len(events) = applyBase + Len(applyPlan)

\* C11: when Apply has returned, Commit was called if and only if every action and every
\* event write of the plan succeeded; on every other path the calls on the transaction are
\* Begin, Rollback; no path ends without a Commit or a Rollback; and the Rollback that
\* follows a Commit takes nothing back (the events of the plan are all in the log).
C11_CommitIffAllSucceeded ==
    applyPc = "returned" =>
        /\ ("Commit" \in TxCalls) <=> AllSucceeded
        /\ ~AllSucceeded => (txCalls = <<"Begin", "Rollback">> /\ applyErr # "nil")
        /\ AllSucceeded =>
              /\ txCalls = <<"Begin", "Commit", "Rollback">>
              /\ applyErr = "nil"
              /\ \A k \in 1..Len(applyPlan) : events[applyBase + k] = Event(applyPlan[k])

\* Apply committed a plan of at least two actions.
C11_Witness ==
    /\ applyPc = "returned"
    /\ "Commit" \in TxCalls
    /\ Len(applyPlan) >= 2

\* C12: when Apply returns an error after earlier actions of the plan succeeded, the event
\* log and the persisted state are as they were when Apply was called.
C12_FailedApplyLeavesNoTrace ==
    (ApplyFailed /\ applyPos > 1) =>
        /\ Len(events) = applyBase
        /\ persisted = EmptyState

\* C13: the events this Apply has appended are those of the actions whose loop iteration
\* completed, in order, each with the action's resource and the type Created, Updated or
\* Deleted of a Create, Update or Delete; a successful Apply has completed every iteration;
\* and no step changes or removes an event of the log.
C13_OneEventPerAction ==
    /\ [](/\ Len(events) = applyBase + applyPos - 1
          /\ \A k \in 1..(applyPos - 1) :
                LET ev == events[applyBase + k]
                    act == applyPlan[k]
                IN  /\ ev.Resource = act.Resource
                    /\ act.Type = ActionCreate => ev.Type = "Created"
                    /\ act.Type = ActionUpdate => ev.Type = "Updated"
                    /\ act.Type = ActionDelete => ev.Type = "Deleted"
          /\ (applyPc = "returned" /\ applyErr = "nil") => applyPos - 1 = Len(applyPlan))
    /\ [][\A i \in 1..Len(events) : i <= Len(events') /\ events'[i] = events[i]]_vars

\* A successful Apply of a Create, an Update and a Delete.
C13_Witness ==
    /\ applyPc = "returned"
    /\ applyErr = "nil"
    /\ Len(applyPlan) = 3
    /\ {applyPlan[k].Type : k \in 1..3} = {ActionCreate, ActionUpdate, ActionDelete}

\* C14: once an action naming an unregistered provider has been dispatched, Apply has
\* returned ErrProviderNotFound at that action: no capability call names that provider, no
\* event was recorded for the action, and Commit was not called.
C14_ProviderNotFound ==
    \A k \in 1..Len(dispatched) :
        LET act == applyPlan[dispatched[k]]
        IN  act.Resource.Provider \notin providers =>
                /\ applyPc = "returned"
                /\ applyErr = ErrProviderNotFound
                /\ applyPos = dispatched[k]
                /\ Len(events) = applyBase + applyPos - 1
                /\ \A c \in 1..Len(providerCalls) :
                      providerCalls[c].Provider # act.Resource.Provider
                /\ "Commit" \notin TxCalls

\* Apply returned ErrProviderNotFound at its second action, the first having succeeded.
C14_Witness ==
    /\ ApplyFailed
    /\ applyErr = ErrProviderNotFound
    /\ applyPos = 2
    /\ Len(events) = applyBase + 1

\* The CloudProvider capability for an action's type and resource kind.
Capability(action) ==
    (CASE action.Type = ActionCreate -> "Create"
       [] action.Type = ActionUpdate -> "Update"
       [] action.Type = ActionDelete -> "Delete") \o action.Resource.Kind

CapabilityCall(action) ==
    [Provider |-> action.Resource.Provider, Capability |-> Capability(action),
     ID |-> action.Resource.ID]

\* C15: the capability calls of this Apply are, in order, one call per executed Create,
\* Update or Delete action: the capability of the action's type and kind, on the provider
\* the action's resource names.
C15_OneCapabilityCall ==
    LET acts == SelectSeq([k \in 1..Cardinality(Executed) |-> applyPlan[k]],
                          LAMBDA a : a.Type \in {ActionCreate, ActionUpdate, ActionDelete})
    IN  providerCalls = [k \in 1..Len(acts) |-> CapabilityCall(acts[k])]

\* C38: every event in the event store has one of the types Created, Updated, Deleted and
\* Failed, whatever the action types of the applied plans.
C38_EventTypesKnown ==
    \A i \in 1..Len(events) :
        events[i].Type \in {EventCreated, EventUpdated, EventDeleted, EventFailed}

\* C40: every action of a generated plan names a provider in its ResourceID, so that its
\* dispatch does not fail with ProviderNotFound when every provider is registered.  Over
\* SpecPlan.
C40_ActionsCarryProvider ==
    planPc = "done" =>
        \A i \in 1..Len(plan) :
            /\ plan[i].Resource.Provider \in ProviderNames
            /\ executeAction(ProviderNames, plan[i]) # ErrProviderNotFound

\* C17: an action is dispatched only when every action before it in the plan has been
\* dispatched, in the plan's order, and the event of each of them is in the log.
C17_SequentialDispatch ==
    [][Len(dispatched') = Len(dispatched) + 1 =>
          LET i == Len(dispatched')
          IN  /\ dispatched' = [k \in 1..i |-> k]
              /\ applyPc = "loop"
              /\ Len(events) = applyBase + i - 1
              /\ \A k \in 1..(i - 1) : events[applyBase + k] = Event(applyPlan[k])]_vars

\* The third action of a plan has been dispatched.
C17_Witness ==
    /\ Len(dispatched) = 3
    /\ applyPc = "record"

-----------------------------------------------------------------------------
(* Properties of the plan-and-apply cycle, over SpecCycle.                  *)

\* C16: the plan generated after a successful Apply holds no Create action for a resource
\* that the plan just applied created.
C16_NoRepeatedCreate ==
    (planPc = "done" /\ applyPc = "returned" /\ applyErr = "nil") =>
        \A i \in 1..Len(plan), k \in 1..Len(applyPlan) :
            ~(/\ plan[i].Type = ActionCreate
              /\ applyPlan[k].Type = ActionCreate
              /\ Key(plan[i]) = Key(applyPlan[k]))

-----------------------------------------------------------------------------
(* Properties of the state lock, over SpecLock.                             *)

\* A caller is in its read-compare-write span from its GetState to its SaveState.
InSpan(c) == callerPc[c] \in {"read", "backedup"}

\* C18: a caller inside its read-compare-write span holds the lock, at most one caller
\* holds the lock, and no other caller is inside its span at the same time.
C18_LockCoversSpan ==
    /\ Cardinality(lockHolders) <= 1
    /\ \A c \in Callers :
          InSpan(c) =>
              /\ c \in lockHolders
              /\ \A other \in Callers \ {c} : ~InSpan(other)

-----------------------------------------------------------------------------
(* Properties of the reconciler loop, over SpecRun.                         *)

\* C19: at most one reconciliation cycle is running at any time, no more cycles have been
\* started than ticks have fired, and a cycle starts only by taking one tick from ticker.C
\* when every cycle started before has returned.
C19_CyclesNeverOverlap ==
    /\ [](/\ started - returned \in {0, 1}
          /\ started <= ticks)
    /\ [][started' # started =>
              /\ started' = started + 1
              /\ returned = started
              /\ tickerC = 1
              /\ tickerC' = 0]_vars

\* The ticker has fired while the second cycle is running.
C19_Witness ==
    /\ runPc = "reconcile"
    /\ started = 2
    /\ tickerC = 1

-----------------------------------------------------------------------------
(* Properties of drift detection, over SpecDrift.                           *)

\* The drifts of the report whose resource is the cluster id.
ClusterDriftsOf(id) ==
    SelectSeq(report.Drifts, LAMBDA dr : dr.Resource.Kind = "Cluster" /\ dr.Resource.ID = id)

\* The desired cluster id is reported by its registered provider at another version.
VersionDiffers(id) ==
    LET p == desired.Clusters[id].Spec.Provider
    IN  /\ p \in providers
        /\ live[p].err = "nil"
        /\ id \in DOMAIN live[p].state.Clusters
        /\ live[p].state.Clusters[id].Spec.ControlPlane.Version
              # desired.Clusters[id].Spec.ControlPlane.Version

\* C20: for a desired cluster whose registered provider reports it at another control-plane
\* version, the report holds exactly one drift of that cluster: version_skew, field
\* "controlPlane.version", severity high, remediatable, expected the desired version and
\* actual the live one.
C20_VersionSkewReported ==
    driftPc = "done" =>
        \A id \in DOMAIN desired.Clusters :
            VersionDiffers(id) =>
                LET dc == desired.Clusters[id]
                    p == dc.Spec.Provider
                IN  ClusterDriftsOf(id) =
                        <<[Resource |-> ResourceID(p, "Cluster", id, dc.Metadata.Name),
                           DriftType |-> "version_skew",
                           Field |-> "controlPlane.version",
                           Expected |-> dc.Spec.ControlPlane.Version,
                           Actual |-> live[p].state.Clusters[id].Spec.ControlPlane.Version,
                           Severity |-> "high",
                           Remediatable |-> TRUE]>>

\* The live state of the registered provider of the desired cluster id is known.
LiveKnown(id) ==
    LET p == desired.Clusters[id].Spec.Provider
    IN  p \in providers /\ live[p].err = "nil"

LiveOf(id) == live[desired.Clusters[id].Spec.Provider].state

\* The NodePool resource ids DetectDrift derives from the worker pools of the desired cluster.
PoolResourceIDs(id) ==
    {id \o "/" \o desired.Clusters[id].Spec.WorkerPools[i].Name :
        i \in 1..Len(desired.Clusters[id].Spec.WorkerPools)}

\* The drifts of the report about the cluster id or one of its worker pools.
AllDriftsOf(id) ==
    SelectSeq(report.Drifts,
              LAMBDA dr : \/ dr.Resource.Kind = "Cluster" /\ dr.Resource.ID = id
                          \/ dr.Resource.Kind = "NodePool" /\ dr.Resource.ID \in PoolResourceIDs(id))

\* What a claim says of a drift: its type, severity and whether it is remediatable.
Verdict(dr) ==
    [DriftType |-> dr.DriftType, Severity |-> dr.Severity, Remediatable |-> dr.Remediatable]

Verdicts(drifts) == [k \in 1..Len(drifts) |-> Verdict(drifts[k])]

\* C21: for a desired cluster absent from the live state of its registered provider the
\* report holds exactly one drift about the cluster and its pools, resource_deleted,
\* critical and remediatable; the summary counts one critical drift per such cluster.
C21_DeletedClusterReported ==
    driftPc = "done" =>
        /\ \A id \in DOMAIN desired.Clusters :
              (LiveKnown(id) /\ id \notin DOMAIN LiveOf(id).Clusters) =>
                  Verdicts(AllDriftsOf(id)) =
                      <<[DriftType |-> "resource_deleted", Severity |-> "critical",
                         Remediatable |-> TRUE]>>
        /\ report.Summary.CriticalCount =
              Cardinality({id \in DOMAIN desired.Clusters :
                              LiveKnown(id) /\ id \notin DOMAIN LiveOf(id).Clusters})

\* Every provider reports a live state equal to the desired state.
LiveIdentical == \A p \in ProviderNames : live[p].err = "nil" /\ live[p].state = desired

\* C22: when the live state every provider reports equals the desired state, the report has
\* no drifts, HasDrift is false and every count of the summary is 0.
C22_NoDriftWhenIdentical ==
    (driftPc = "done" /\ LiveIdentical) =>
        /\ report.Drifts = <<>>
        /\ report.HasDrift = FALSE
        /\ report.Summary = [TotalDrifts |-> 0, CriticalCount |-> 0, HighCount |-> 0,
                             MediumCount |-> 0, LowCount |-> 0, RemediableCount |-> 0]

\* DetectDrift has run on a cluster with a worker pool that its registered provider reports
\* exactly as desired.
C22_Witness ==
    /\ driftPc = "done"
    /\ LiveIdentical
    /\ "c1" \in DOMAIN desired.Clusters
    /\ desired.Clusters["c1"].Spec.WorkerPools # <<>>
    /\ desired.Clusters["c1"].Spec.Provider \in providers

\* The drifts of the report about the worker pool named name of the cluster id.
PoolDriftsOf(id, name) ==
    SelectSeq(report.Drifts,
              LAMBDA dr : dr.Resource.Kind = "NodePool" /\ dr.Resource.ID = id \o "/" \o name)

\* C30: for a desired cluster found in the live state and each of its desired worker pools,
\* the report holds one resource_deleted drift of severity high when no live pool has the
\* pool's name, one scale_change drift of severity medium when the live pool of that name
\* has another desiredSize, and no drift when name and desiredSize match.
C30_WorkerPoolDrifts ==
    driftPc = "done" =>
        \A id \in DOMAIN desired.Clusters :
            (LiveKnown(id) /\ id \in DOMAIN LiveOf(id).Clusters) =>
                LET desiredPools == desired.Clusters[id].Spec.WorkerPools
                    livePools == LiveOf(id).Clusters[id].Spec.WorkerPools
                IN  \A i \in 1..Len(desiredPools) :
                        LET named == SelectSeq(livePools,
                                               LAMBDA lp : lp.Name = desiredPools[i].Name)
                        IN  Verdicts(PoolDriftsOf(id, desiredPools[i].Name)) =
                                IF named = <<>>
                                THEN <<[DriftType |-> "resource_deleted", Severity |-> "high",
                                        Remediatable |-> TRUE]>>
                                ELSE IF named[1].DesiredSize # desiredPools[i].DesiredSize
                                THEN <<[DriftType |-> "scale_change", Severity |-> "medium",
                                        Remediatable |-> TRUE]>>
                                ELSE <<>>

\* The positions of the report's remediatable drifts whose remediation fails.
FailedItems ==
    {i \in 1..Len(report.Drifts) :
        report.Drifts[i].Remediatable /\ remediateDrift(providers, report.Drifts[i]) # "nil"}

\* C27: when the remediation of at least one remediatable drift fails, the value Remediate
\* returns to its caller is not nil: it reports the failed items.
C27_FailuresReported ==
    (driftPc = "remediated" /\ FailedItems # {}) => remediation.err # "nil"

-----------------------------------------------------------------------------
(* Drift properties, over SpecDrift, second part.                          *)

\* The drift lists the body of the provider loop (detector.go:90-187) computes for the
\* registered providers, for every order of the cluster map.
LoopDrifts ==
    {providerDrifts(p, desired, live, o) : p \in providers, o \in Orders(ClusterIDs)}

SummaryAgrees(hasDrift, s, ds) ==
    /\ hasDrift <=> ds # <<>>
    /\ s.TotalDrifts = Len(ds)
    /\ s.CriticalCount + s.HighCount + s.MediumCount + s.LowCount = s.TotalDrifts
    /\ s.RemediableCount = Cardinality({i \in 1..Len(ds) : ds[i].Remediatable})

\* C32: in the report DetectDrift returns, HasDrift is true exactly when there are drifts,
\* TotalDrifts is their number, the four severity counts add up to it and RemediableCount
\* is the number of remediatable drifts; the same holds of the aggregation applied to the
\* drifts the detection loop computes for a registered provider.
C32_SummaryCounts ==
    driftPc = "done" =>
        /\ SummaryAgrees(report.HasDrift, report.Summary, report.Drifts)
        /\ \A ds \in LoopDrifts : SummaryAgrees(Len(ds) > 0, DriftSummary(ds), ds)

\* DetectDrift has returned where the loop finds drifts of two severities for a registered
\* provider.
C32_Witness ==
    /\ driftPc = "done"
    /\ \E ds \in LoopDrifts :
          /\ \E i \in 1..Len(ds) : ds[i].Severity = SeverityHigh
          /\ \E i \in 1..Len(ds) : ds[i].Severity = SeverityMedium

\* The registered providers whose Reconcile fails.
FailingProviders == {p \in providers : live[p].err # "nil"}

\* C33: when the query of a registered provider fails, DetectDrift still returns a report,
\* the report has no drift of that provider, the detection loop computes none for it, and
\* the report is one DetectDrift returns when that provider is not registered.
C33_BestEffortPerProvider ==
    driftPc = "done" =>
        \A p \in FailingProviders :
            /\ \A i \in 1..Len(report.Drifts) : report.Drifts[i].Resource.Provider # p
            /\ \A o \in Orders(ClusterIDs) : providerDrifts(p, desired, live, o) = <<>>
            /\ \E po \in Orders(ProviderNames), co \in Orders(ClusterIDs) :
                  report = DetectDrift(providers \ {p}, desired, live, po, co)

\* Both providers are registered, the query of the one that manages the desired cluster c1
\* fails, and DetectDrift has returned.
C33_Witness ==
    /\ driftPc = "done"
    /\ providers = ProviderNames
    /\ "c1" \in DOMAIN desired.Clusters
    /\ desired.Clusters["c1"].Spec.Provider \in FailingProviders
    /\ \E q \in providers : live[q].err = "nil"

-----------------------------------------------------------------------------
(* Remediation properties, over SpecRemediate.                             *)

\* The positions of the report's drifts that are remediatable, in list order.
RemediatablePositions ==
    SelectSeq([i \in 1..Len(report.Drifts) |-> i], LAMBDA i : report.Drifts[i].Remediatable)

\* C34: Remediate calls remediateDrift for every remediatable drift of the report, in list
\* order, whether or not an earlier one failed.
C34_EveryRemediatableAttempted ==
    driftPc = "remediated" => remediation.attempted = RemediatablePositions

\* The first of two remediatable drifts failed and the second was remediated.
C34_Witness ==
    /\ driftPc = "remediated"
    /\ remediation.attempted = <<1, 2>>
    /\ remediation.logged = <<1>>
    /\ remediation.remediatedCount = 1

\* C35: for a drift that is not remediatable Remediate makes no provider lookup and no
\* provider call and counts nothing, and it returns nil.
C35_NonRemediatableUntouched ==
    driftPc = "remediated" =>
        /\ \A i \in 1..Len(report.Drifts) :
              ~report.Drifts[i].Remediatable =>
                  /\ \A k \in 1..Len(remediation.attempted) : remediation.attempted[k] # i
                  /\ \A k \in 1..Len(remediation.logged) : remediation.logged[k] # i
        /\ remediation.remediatedCount =
              Cardinality({i \in 1..Len(report.Drifts) :
                              /\ report.Drifts[i].Remediatable
                              /\ remediateDrift(providers, report.Drifts[i]) = "nil"})
        /\ providerCalls = <<>>
        /\ remediation.err = "nil"

\* Remediate has returned on a report whose first drift is not remediatable, though its
\* provider is registered and its type is one remediateDrift handles, and whose second is.
C35_Witness ==
    /\ driftPc = "remediated"
    /\ Len(report.Drifts) = 2
    /\ ~report.Drifts[1].Remediatable
    /\ remediateDrift(providers, report.Drifts[1]) = "nil"
    /\ report.Drifts[2].Remediatable
    /\ remediation.attempted = <<2>>

-----------------------------------------------------------------------------
(* Reconciler properties, over SpecRun, second part.                       *)

\* C39: once the context of Run is done, no further reconciliation cycle is started, also
\* when a tick is waiting in ticker.C.
C39_NoCycleAfterCancel == [][ctxDone => started' = started]_vars

====
